---- MODULE Spec2Model ----
(***************************************************************************)
(* Model of trajche/share (sharemk).                                       *)
(*                                                                         *)
(* Part 1: the admission controller, internal/ratelimit/limiter.go.        *)
(* A Limiter holds two kinds of buffered channels used as counting         *)
(* semaphores: globalSem (capacity globalMax) and one channel per client   *)
(* key in the table perIP (capacity perIPMax).  A channel is modelled by   *)
(* the number of elements it buffers; its capacity is fixed at creation.   *)
(* Request handlers run concurrently, so every channel operation and       *)
(* every table lookup (ipChan, serialised by l.mu) is one atomic step of   *)
(* one request; the steps of different requests interleave freely.         *)
(***************************************************************************)
EXTENDS Integers, FiniteSets, Sequences, TLC

\* ---------------------------------------------------------------- bounds
\* Number of requests that ever reach the server in one behaviour.
NumReqs == 3
\* Largest global ceiling New is called with.
MaxGlobal == 2
\* Largest per-client ceiling New is called with, besides the default.
MaxPerIP == 2

\* RATE_LIMIT_PER_IP default of config.Load.
RateLimitPerIPDefault == 5

\* http.StatusTooManyRequests, the status written on rejection.
StatusTooManyRequests == 429

Reqs == 1..NumReqs
ClientKeys == {"ipA", "ipB"}
Methods == {"POST", "PATCH", "GET", "HEAD", "DELETE", "OPTIONS"}
\* How the wrapped handler can end: plain return after a success response,
\* return after an error response, or a panic (http.ErrAbortHandler: abort,
\* client disconnect, timeout).
Exits == {"ok", "error", "abort"}

VARIABLES
    globalMax,  \* cap(l.globalSem)
    perIPMax,   \* l.perIPMax
    globalSem,  \* len(l.globalSem)
    perIP,      \* l.perIP: client key -> len of that client's channel
    pc,         \* position of each request in Middleware/acquire/release
    method,     \* r.Method of each request
    ip,         \* local ip of the Middleware closure (realIP(r))
    ret,        \* which return statement of acquire the request reached
    resp,       \* what Middleware itself wrote to the ResponseWriter
    nextCalls,  \* how many times next.ServeHTTP was invoked for the request
    exit,       \* how next.ServeHTTP ended
    releases    \* how many times l.release ran to completion for the request

limiterVars == <<globalMax, perIPMax, globalSem, perIP>>
reqVars == <<pc, method, ip, ret, resp, nextCalls, exit, releases>>
vars == <<globalMax, perIPMax, globalSem, perIP,
          pc, method, ip, ret, resp, nextCalls, exit, releases>>

\* State of the expiry sweeper and of the bucket it sweeps.
VARIABLES
    store,         \* the bucket: key -> object (with its expires-at tag)
    clock,         \* the wall clock, in ticks
    ctxDone,       \* the context handed to Worker.Start is cancelled
    wpc,           \* position of the worker goroutine
    passNow,       \* runOnce's local now
    more,          \* paginator.HasMorePages()
    cursor,        \* listing position of the last key the paginator returned
    page,          \* what is left to scan of page.Contents
    toDelete,      \* runOnce's per-page slice toDelete
    log,           \* what the running pass has logged as failed
    tickerPeriod,  \* period of Start's ticker in minutes, 0 before NewTicker
    tickPending,   \* a tick waits in ticker.C
    passes,        \* number of runOnce calls so far
    ticksTaken,    \* number of ticks Start has received
    atStart        \* history: each id at the start of the running pass

storeVars == <<store, clock, ctxDone>>
workerVars == <<wpc, passNow, more, cursor, page, toDelete, log,
                tickerPeriod, tickPending, passes, ticksTaken>>
historyVars == <<atStart>>
sweepVars == <<storeVars, workerVars, historyVars>>

\* The writes that requests have made to the bucket, each with the route
\* it came by and whether the request held a slot when it wrote.
VARIABLES written

serverVars == <<written>>

\* State of the upload paths and of the MCP tools.
VARIABLES
    up,            \* upload id -> the handler that creates it, with its locals
    infoBody,      \* upload id -> what its ".info" object holds
    reply,         \* the answer that the step just taken sent to a caller
    leaks,         \* history: the answers that carried a stored token
    verdict        \* the last call of tokenMatches on its own, with its result

toolVars == <<up, infoBody, reply, leaks, verdict>>

\* State of the per-client table when ipChan is followed statement by
\* statement.
VARIABLES
    mu,            \* l.mu: the request that holds it, 0 when unlocked
    chanOf,        \* l.perIP: client key -> the channel made for it
    chLen,         \* channel -> len of the channel
    ch,            \* local ch of each request's acquire or release
    lpc            \* position of each request inside ipChan

lockVars == <<mu, chanOf, chLen, ch, lpc>>

\* What the admission controller's steps leave alone, what the sweeper's
\* steps leave alone, what the tools' steps leave alone, and everything.
otherVars == <<sweepVars, serverVars, toolVars, lockVars>>
nonSweepVars == <<vars, serverVars, toolVars, lockVars>>
nonToolVars == <<vars, serverVars, ctxDone, workerVars, historyVars, lockVars>>
allVars == <<vars, sweepVars, serverVars, toolVars, lockVars>>

NoResp == [code |-> 0, body |-> "", headers |-> {}]

\* ------------------------------------------------------------ pure parts

\* Mutant: every method but GET is rate-limited.
GatedAllButGet(m) == m # "GET"

\* Middleware's method test: only POST and PATCH are rate-limited.
Gated(m) == m = "POST" \/ m = "PATCH"

\* The table after ipChan(k): an absent key gets a fresh empty channel, a
\* present key keeps its channel.  The channel returned is the one of k.
ipChan(tbl, k) ==
    IF k \in DOMAIN tbl
    THEN tbl
    ELSE [x \in DOMAIN tbl \cup {k} |-> IF x = k THEN 0 ELSE tbl[x]]

\* http.Error(w, "too many concurrent uploads", http.StatusTooManyRequests):
\* net/http sets these two headers, the status and the message as body.
TooManyResp ==
    [code |-> StatusTooManyRequests,
     body |-> "too many concurrent uploads",
     headers |-> {"Content-Type", "X-Content-Type-Options"}]

\* ----------------------------------------------------------------- Init

\* New(globalMax, perIPMax): both channels' tables empty.
New(g, p) ==
    /\ globalMax = g
    /\ perIPMax = p
    /\ globalSem = 0
    /\ perIP = [k \in {} |-> 0]

Init ==
    /\ \E g \in 1..MaxGlobal, p \in (1..MaxPerIP) \cup {RateLimitPerIPDefault} :
          New(g, p)
    /\ pc = [r \in Reqs |-> "idle"]
    /\ method = [r \in Reqs |-> "none"]
    /\ ip = [r \in Reqs |-> "none"]
    /\ ret = [r \in Reqs |-> "none"]
    /\ resp = [r \in Reqs |-> NoResp]
    /\ nextCalls = [r \in Reqs |-> 0]
    /\ exit = [r \in Reqs |-> "none"]
    /\ releases = [r \in Reqs |-> 0]

\* -------------------------------------------------------------- actions

\* Middleware, lines 70-76: a request with method m arrives; realIP gives k.
\* Other methods go straight to the wrapped handler; realIP is not called.
\* Requests are numbered in the order in which they reach Middleware.
MiddlewareEnter(r, m, k) ==
    /\ pc[r] = "idle"
    /\ \A q \in Reqs : q < r => pc[q] # "idle"
    /\ method' = [method EXCEPT ![r] = m]
    /\ IF Gated(m)
       THEN /\ ip' = [ip EXCEPT ![r] = k]
            /\ pc' = [pc EXCEPT ![r] = "acquire"]
            /\ UNCHANGED nextCalls
       ELSE /\ pc' = [pc EXCEPT ![r] = "next"]
            /\ nextCalls' = [nextCalls EXCEPT ![r] = @ + 1]
            /\ UNCHANGED ip
    /\ UNCHANGED <<limiterVars, ret, resp, exit, releases>>
    /\ UNCHANGED otherVars

\* Mutant: the return after http.Error is missing, so Middleware falls
\* through to the deferred release and calls the wrapped handler.
RejectFallsThrough(r, why) ==
    /\ ret' = [ret EXCEPT ![r] = why]
    /\ resp' = [resp EXCEPT ![r] = TooManyResp]
    /\ nextCalls' = [nextCalls EXCEPT ![r] = @ + 1]
    /\ pc' = [pc EXCEPT ![r] = "next"]
    /\ UNCHANGED <<method, ip, exit, releases>>

\* Middleware lines 77-80 after acquire returned false: http.Error and return.
\* Local to the request; happens in the step in which acquire returns.
Reject(r, why) ==
    /\ ret' = [ret EXCEPT ![r] = why]
    /\ resp' = [resp EXCEPT ![r] = TooManyResp]
    /\ pc' = [pc EXCEPT ![r] = "done"]
    /\ UNCHANGED <<method, ip, nextCalls, exit, releases>>

\* Mutant: the capacity test of the global pool is off by one.
AcquireGlobalOffByOne(r) ==
    /\ pc[r] = "acquire"
    /\ IF globalSem <= globalMax
       THEN /\ globalSem' = globalSem + 1
            /\ pc' = [pc EXCEPT ![r] = "acq_ipChan"]
            /\ UNCHANGED <<method, ip, ret, resp, nextCalls, exit, releases>>
       ELSE /\ UNCHANGED globalSem
            /\ Reject(r, "false_global")
    /\ UNCHANGED <<globalMax, perIPMax, perIP>>
    /\ UNCHANGED otherVars

\* Mutant: the default branch of the global select also receives from
\* globalSem, as the rollback of the per-client branch does.
AcquireGlobalSpuriousRollback(r) ==
    /\ pc[r] = "acquire"
    /\ IF globalSem < globalMax
       THEN /\ globalSem' = globalSem + 1
            /\ pc' = [pc EXCEPT ![r] = "acq_ipChan"]
            /\ UNCHANGED <<method, ip, ret, resp, nextCalls, exit, releases>>
       ELSE /\ globalSem' = globalSem - 1
            /\ Reject(r, "false_global")
    /\ UNCHANGED <<globalMax, perIPMax, perIP>>
    /\ UNCHANGED otherVars

\* acquire lines 27-31: non-blocking send on globalSem.
AcquireGlobal(r) ==
    /\ pc[r] = "acquire"
    /\ IF globalSem < globalMax
       THEN /\ globalSem' = globalSem + 1
            /\ pc' = [pc EXCEPT ![r] = "acq_ipChan"]
            /\ UNCHANGED <<method, ip, ret, resp, nextCalls, exit, releases>>
       ELSE /\ UNCHANGED globalSem
            /\ Reject(r, "false_global")
    /\ UNCHANGED <<globalMax, perIPMax, perIP>>
    /\ UNCHANGED otherVars

\* acquire line 34: ch := l.ipChan(ip).
AcquireIPChan(r) ==
    /\ pc[r] = "acq_ipChan"
    /\ perIP' = ipChan(perIP, ip[r])
    /\ pc' = [pc EXCEPT ![r] = "acq_perIP"]
    /\ UNCHANGED <<globalMax, perIPMax, globalSem>>
    /\ UNCHANGED <<method, ip, ret, resp, nextCalls, exit, releases>>
    /\ UNCHANGED otherVars

\* Mutant: the capacity test of the client's pool is off by one.
AcquirePerIPOffByOne(r) ==
    /\ pc[r] = "acq_perIP"
    /\ IF perIP[ip[r]] <= perIPMax
       THEN /\ perIP' = [perIP EXCEPT ![ip[r]] = @ + 1]
            /\ ret' = [ret EXCEPT ![r] = "true"]
            /\ nextCalls' = [nextCalls EXCEPT ![r] = @ + 1]
            /\ pc' = [pc EXCEPT ![r] = "next"]
       ELSE /\ pc' = [pc EXCEPT ![r] = "rollback"]
            /\ UNCHANGED <<perIP, ret, nextCalls>>
    /\ UNCHANGED <<globalMax, perIPMax, globalSem>>
    /\ UNCHANGED <<method, ip, resp, exit, releases>>
    /\ UNCHANGED otherVars

\* Mutant: the default branch of the per-client select returns true: the
\* request is admitted holding a global slot only.
AcquirePerIPIgnoreFull(r) ==
    /\ pc[r] = "acq_perIP"
    /\ IF perIP[ip[r]] < perIPMax
       THEN perIP' = [perIP EXCEPT ![ip[r]] = @ + 1]
       ELSE UNCHANGED perIP
    /\ ret' = [ret EXCEPT ![r] = "true"]
    /\ nextCalls' = [nextCalls EXCEPT ![r] = @ + 1]
    /\ pc' = [pc EXCEPT ![r] = "next"]
    /\ UNCHANGED <<globalMax, perIPMax, globalSem>>
    /\ UNCHANGED <<method, ip, resp, exit, releases>>
    /\ UNCHANGED otherVars

\* acquire lines 35-39: non-blocking send on the client's channel.  On
\* success acquire returns true, Middleware defers release and calls next.
AcquirePerIP(r) ==
    /\ pc[r] = "acq_perIP"
    /\ IF perIP[ip[r]] < perIPMax
       THEN /\ perIP' = [perIP EXCEPT ![ip[r]] = @ + 1]
            /\ ret' = [ret EXCEPT ![r] = "true"]
            /\ nextCalls' = [nextCalls EXCEPT ![r] = @ + 1]
            /\ pc' = [pc EXCEPT ![r] = "next"]
       ELSE /\ pc' = [pc EXCEPT ![r] = "rollback"]
            /\ UNCHANGED <<perIP, ret, nextCalls>>
    /\ UNCHANGED <<globalMax, perIPMax, globalSem>>
    /\ UNCHANGED <<method, ip, resp, exit, releases>>
    /\ UNCHANGED otherVars

\* Mutant: the per-client failure returns false without giving the global
\* slot back.
RollbackLeak(r) ==
    /\ pc[r] = "rollback"
    /\ UNCHANGED globalSem
    /\ Reject(r, "false_perIP")
    /\ UNCHANGED <<globalMax, perIPMax, perIP>>
    /\ UNCHANGED otherVars

\* acquire lines 40-41: blocking receive on globalSem, then return false.
Rollback(r) ==
    /\ pc[r] = "rollback"
    /\ globalSem > 0
    /\ globalSem' = globalSem - 1
    /\ Reject(r, "false_perIP")
    /\ UNCHANGED <<globalMax, perIPMax, perIP>>
    /\ UNCHANGED otherVars

\* next.ServeHTTP ends (lines 72-73 and 83).  For an admitted request the
\* deferred l.release(ip) starts, also when the handler panics.
NextEnds(r, e) ==
    /\ pc[r] = "next"
    /\ exit' = [exit EXCEPT ![r] = e]
    /\ pc' = [pc EXCEPT ![r] = IF Gated(method[r]) THEN "rel_ipChan" ELSE "done"]
    /\ UNCHANGED <<limiterVars, method, ip, ret, resp, nextCalls, releases>>
    /\ UNCHANGED otherVars

\* release line 46: ch := l.ipChan(ip).
ReleaseIPChan(r) ==
    /\ pc[r] = "rel_ipChan"
    /\ perIP' = ipChan(perIP, ip[r])
    /\ pc' = [pc EXCEPT ![r] = "rel_perIP"]
    /\ UNCHANGED <<globalMax, perIPMax, globalSem>>
    /\ UNCHANGED <<method, ip, ret, resp, nextCalls, exit, releases>>
    /\ UNCHANGED otherVars

\* release lines 47-50: non-blocking receive on the client's channel.
ReleasePerIP(r) ==
    /\ pc[r] = "rel_perIP"
    /\ perIP' = [perIP EXCEPT ![ip[r]] = IF @ > 0 THEN @ - 1 ELSE @]
    /\ pc' = [pc EXCEPT ![r] = "rel_global"]
    /\ UNCHANGED <<globalMax, perIPMax, globalSem>>
    /\ UNCHANGED <<method, ip, ret, resp, nextCalls, exit, releases>>
    /\ UNCHANGED otherVars

\* Mutant: release drains the client's channel only.
ReleaseGlobalSkipped(r) ==
    /\ pc[r] = "rel_global"
    /\ UNCHANGED globalSem
    /\ releases' = [releases EXCEPT ![r] = @ + 1]
    /\ pc' = [pc EXCEPT ![r] = "done"]
    /\ UNCHANGED <<globalMax, perIPMax, perIP>>
    /\ UNCHANGED <<method, ip, ret, resp, nextCalls, exit>>
    /\ UNCHANGED otherVars

\* Mutant: release receives from globalSem without a default branch, so
\* it waits while the pool is empty.
ReleaseGlobalBlocking(r) ==
    /\ pc[r] = "rel_global"
    /\ globalSem > 0
    /\ globalSem' = globalSem - 1
    /\ releases' = [releases EXCEPT ![r] = @ + 1]
    /\ pc' = [pc EXCEPT ![r] = "done"]
    /\ UNCHANGED <<globalMax, perIPMax, perIP>>
    /\ UNCHANGED <<method, ip, ret, resp, nextCalls, exit>>
    /\ UNCHANGED otherVars

\* release lines 51-54: non-blocking receive on globalSem; release returns
\* and with it the Middleware closure.
ReleaseGlobal(r) ==
    /\ pc[r] = "rel_global"
    /\ globalSem' = IF globalSem > 0 THEN globalSem - 1 ELSE globalSem
    /\ releases' = [releases EXCEPT ![r] = @ + 1]
    /\ pc' = [pc EXCEPT ![r] = "done"]
    /\ UNCHANGED <<globalMax, perIPMax, perIP>>
    /\ UNCHANGED <<method, ip, ret, resp, nextCalls, exit>>
    /\ UNCHANGED otherVars

Next ==
    \E r \in Reqs :
        \/ \E m \in Methods, k \in ClientKeys : MiddlewareEnter(r, m, k)
        \/ AcquireGlobal(r)
        \/ AcquireIPChan(r)
        \/ AcquirePerIP(r)
        \/ Rollback(r)
        \/ \E e \in Exits : NextEnds(r, e)
        \/ ReleaseIPChan(r)
        \/ ReleasePerIP(r)
        \/ ReleaseGlobal(r)


\* ================================================================ claims
\* Vocabulary of the claims, derived from the requests' positions.

\* Number of slots held in client k's pool (0 while k has no pool yet).
InUse(k) == IF k \in DOMAIN perIP THEN perIP[k] ELSE 0

\* The request is inside acquire, after its send on globalSem and before
\* acquire returns.
InAcquire(r) == pc[r] \in {"acq_ipChan", "acq_perIP", "rollback"}

\* acquire returned true for the request and its release has not finished.
InFlight(r) ==
    ret[r] = "true" /\ pc[r] \in {"next", "rel_ipChan", "rel_perIP", "rel_global"}

\* Requests whose send on globalSem is not yet matched by a receive.
GlobalHolders == {r \in Reqs : InAcquire(r) \/ InFlight(r)}

\* Requests whose send on client k's channel is not yet matched by a receive.
PerIPHolders(k) ==
    {r \in Reqs : ip[r] = k /\ ret[r] = "true"
                            /\ pc[r] \in {"next", "rel_ipChan", "rel_perIP"}}

\* The step is taken by request r.
StepOf(r) == pc'[r] # pc[r]

\* acquire has returned false for the request.
Refused(r) == ret[r] \in {"false_global", "false_perIP"}

\* Every slot in a pool belongs to exactly one request that holds it.
SlotsAccounted ==
    /\ globalSem = Cardinality(GlobalHolders)
    /\ \A k \in ClientKeys : InUse(k) = Cardinality(PerIPHolders(k))

\* C1: in every reachable state the number of held global slots is between
\* 0 and G, and for every client key the number of held slots of its pool
\* is between 0 and P.
C1_CountsWithinCeilings ==
    /\ 0 <= globalSem /\ globalSem <= globalMax
    /\ \A k \in ClientKeys : 0 <= InUse(k) /\ InUse(k) <= perIPMax

\* C1 witness: both ceilings are reached at once while another request is
\* about to acquire and an earlier one has already released.
C1_Witness ==
    /\ globalSem = globalMax
    /\ \E k \in ClientKeys : InUse(k) = perIPMax
    /\ \E r \in Reqs : pc[r] = "acquire"
    /\ \E r \in Reqs : releases[r] = 1

\* Acquires that have succeeded, and releases performed on each pool (a
\* release counts for a pool from the moment it has received from it).
Succeeded(k) == {r \in Reqs : ret[r] = "true" /\ ip[r] = k}
ReleasedPerIP(k) ==
    {r \in Succeeded(k) : pc[r] = "rel_global" \/ releases[r] > 0}
ReleasedGlobal == {r \in Reqs : releases[r] > 0}
SucceededAll == {r \in Reqs : ret[r] = "true"}

\* C2: at every point in time the global in-use count equals the number of
\* acquires that have succeeded minus the number of releases performed, and
\* the same holds for each client key's count.
C2_Balanced ==
    /\ globalSem = Cardinality(SucceededAll) - Cardinality(ReleasedGlobal)
    /\ \A k \in ClientKeys :
          InUse(k) = Cardinality(Succeeded(k)) - Cardinality(ReleasedPerIP(k))

\* C3: if the global pool has no free slot when acquire(c) does its global
\* select, acquire returns false, whatever the free capacity of c's pool,
\* and neither the global count nor any per-client count changes.
C3_GlobalFullRefuses ==
    [][\A r \in Reqs :
          (pc[r] = "acquire" /\ globalSem = globalMax /\ StepOf(r))
          => /\ ret'[r] = "false_global"
             /\ pc'[r] = "done"
             /\ globalSem' = globalSem
             /\ perIP' = perIP]_vars

\* C3 witness: a request was refused on the global pool while its own
\* client's pool had free capacity.
C3_Witness ==
    \E r \in Reqs :
        /\ ret[r] = "false_global"
        /\ InUse(ip[r]) < perIPMax
        /\ globalSem = globalMax

\* C4: if client c's pool is found exhausted by an acquire(c) that has
\* reserved a global slot, that acquire returns false after giving the
\* global slot back; the call changes no client's count, and once it has
\* returned no slot of either pool is left reserved for it.
C4_PerIPFullRollsBack ==
    /\ [][\A r \in Reqs :
            /\ (pc[r] = "acq_perIP" /\ perIP[ip[r]] = perIPMax /\ StepOf(r))
               => /\ pc'[r] = "rollback"
                  /\ globalSem' = globalSem
                  /\ perIP' = perIP
            /\ (pc[r] = "rollback" /\ StepOf(r))
               => /\ ret'[r] = "false_perIP"
                  /\ pc'[r] = "done"
                  /\ globalSem' = globalSem - 1
                  /\ perIP' = perIP]_vars
    /\ [](\A r \in Reqs :
            ret[r] = "false_perIP"
            => /\ globalSem = Cardinality(GlobalHolders \ {r})
               /\ \A k \in ClientKeys :
                     InUse(k) = Cardinality(PerIPHolders(k) \ {r}))

\* C4 witness: a request of a client whose pool is full was refused and has
\* rolled back, the global pool has free capacity again, and a request of
\* another client is admitted.
C4_Witness ==
    \E r, q \in Reqs :
        /\ ret[r] = "false_perIP"
        /\ InUse(ip[r]) = perIPMax
        /\ globalSem < globalMax
        /\ ip[q] # ip[r]
        /\ ret[q] = "true"
        /\ r < q

\* C5: acquire(c) returns true only if the global pool had a free slot at
\* its global select and c's pool had one at its per-client select; the
\* successful call raises the global count and c's count by one each and
\* no other client's count; after acquire has returned the request holds a
\* slot of both pools (true) or of none (false).
C5_AllOrNothing ==
    /\ [][\A r \in Reqs :
            /\ (pc[r] = "acquire" /\ pc'[r] = "acq_ipChan")
               => /\ globalSem < globalMax
                  /\ globalSem' = globalSem + 1
                  /\ \A k \in ClientKeys : InUse(k)' = InUse(k)
            /\ (pc[r] = "acq_ipChan" /\ StepOf(r))
               => /\ globalSem' = globalSem
                  /\ \A k \in ClientKeys : InUse(k)' = InUse(k)
            /\ (ret[r] # "true" /\ ret'[r] = "true")
               => /\ pc[r] = "acq_perIP"
                  /\ InUse(ip[r]) < perIPMax
                  /\ InUse(ip[r])' = InUse(ip[r]) + 1
                  /\ \A k \in ClientKeys \ {ip[r]} : InUse(k)' = InUse(k)
                  /\ globalSem' = globalSem]_vars
    /\ [](/\ SlotsAccounted
          /\ \A r \in Reqs :
                /\ (ret[r] = "true" /\ pc[r] = "next")
                   => r \in GlobalHolders /\ r \in PerIPHolders(ip[r])
                /\ Refused(r)
                   => /\ r \notin GlobalHolders
                      /\ \A k \in ClientKeys : r \notin PerIPHolders(k))

\* C5 witness: one request is admitted and holds both slots while another
\* client's pool is untouched, and another request was refused.
C5_Witness ==
    \E r, q \in Reqs :
        /\ ret[r] = "true" /\ pc[r] = "next"
        /\ Refused(q)
        /\ \E k \in ClientKeys \ {ip[r]} : InUse(k) = 0 /\ k \in DOMAIN perIP

\* C6: release(c) after a matching successful acquire(c) returns exactly one
\* slot to c's pool and exactly one to the global pool, and changes no other
\* client's count.
C6_ReleaseReturnsOneEach ==
    [][\A r \in Reqs :
          /\ (pc[r] = "rel_ipChan" /\ StepOf(r))
             => globalSem' = globalSem /\ perIP' = perIP
          /\ (pc[r] = "rel_perIP" /\ StepOf(r))
             => /\ perIP[ip[r]] > 0
                /\ perIP' = [perIP EXCEPT ![ip[r]] = @ - 1]
                /\ globalSem' = globalSem
          /\ (pc[r] = "rel_global" /\ StepOf(r))
             => /\ globalSem > 0
                /\ globalSem' = globalSem - 1
                /\ perIP' = perIP
                /\ releases'[r] = 1]_vars

\* C6 witness: a release has completed while requests of both clients
\* still hold slots.
C6_Witness ==
    /\ \E r \in Reqs : releases[r] = 1 /\ ret[r] = "true"
    /\ \A k \in ClientKeys : InUse(k) > 0

\* The methods the claims call mutating, and the others they name.
Mutating == {"POST", "PATCH"}
NonMutating == {"GET", "HEAD", "DELETE", "OPTIONS"}

\* The request was admitted: acquire returned true for it.
Admitted(r) == ret[r] = "true"

\* The release obligations of C7 taken alone: an admitted request that has
\* ended has released exactly once, whatever the exit path of the handler;
\* no request releases more than once; only admitted requests release, and
\* only after the wrapped handler has ended.
C7_ReleasedExactlyOnce ==
    \A r \in Reqs :
        /\ releases[r] <= 1
        /\ (Admitted(r) /\ pc[r] = "done")
           => releases[r] = 1 /\ exit[r] \in Exits /\ method[r] \in Mutating
        /\ releases[r] = 1 => Admitted(r) /\ exit[r] \in Exits
        /\ pc[r] \in {"rel_ipChan", "rel_perIP", "rel_global"}
           => Admitted(r) /\ exit[r] \in Exits /\ releases[r] = 0

\* Some request was admitted, every admitted request has ended, and no
\* other request can still be admitted (none is before or inside acquire
\* with its outcome open).
AllAdmittedEnded ==
    /\ \E r \in Reqs : Admitted(r)
    /\ \A r \in Reqs : Admitted(r) => pc[r] = "done"
    /\ \A r \in Reqs : pc[r] \notin {"acquire", "acq_ipChan", "acq_perIP"}

\* C7: every admitted POST or PATCH request releases its slots exactly once
\* when the wrapped handler ends, on every exit path, after its acquire;
\* once all admitted requests have ended, the global count and every
\* per-client count are 0.
C7_ReleasedOnEveryExit ==
    /\ C7_ReleasedExactlyOnce
    /\ AllAdmittedEnded
       => globalSem = 0 /\ \A k \in ClientKeys : InUse(k) = 0

\* Three mutating requests of one client have all attempted to acquire,
\* none of them has left the wrapped handler, and no other request has
\* touched the pools.
ThreeAttempted(S) ==
    /\ Cardinality(S) = 3
    /\ \A r \in S : method[r] \in Mutating /\ pc[r] \in {"next", "done"}
                      /\ ret[r] # "none" /\ releases[r] = 0
    /\ \A r, q \in S : ip[r] = ip[q]
    /\ \A q \in Reqs \ S : pc[q] = "idle" \/ method[q] \in NonMutating

\* C8: with G = 2 and P = 5, when three requests of one client have all
\* attempted to acquire and none has released, exactly two are admitted and
\* one is rejected with 429.
C8_TwoOfThreeAdmitted ==
    \A S \in SUBSET Reqs :
        (globalMax = 2 /\ perIPMax = 5 /\ ThreeAttempted(S))
        => /\ Cardinality({r \in S : Admitted(r) /\ pc[r] = "next"}) = 2
           /\ Cardinality({r \in S : Refused(r) /\ resp[r].code = 429}) = 1

\* C8 witness: the three requests have attempted under G = 2, P = 5.
C8_Witness ==
    /\ globalMax = 2 /\ perIPMax = 5
    /\ \E S \in SUBSET Reqs : ThreeAttempted(S)

\* C9: a request with a method other than POST and PATCH is passed to the
\* wrapped handler whatever the pool counts are, and no step of it changes
\* the global count, a per-client count or the per-client table.
C9_OtherMethodsBypass ==
    [][\A r \in Reqs :
          (method'[r] \in NonMutating /\ StepOf(r))
          => /\ globalSem' = globalSem
             /\ perIP' = perIP
             /\ pc[r] = "idle"
                => pc'[r] = "next" /\ nextCalls'[r] = 1 /\ resp'[r] = NoResp
             /\ pc[r] # "idle" => pc[r] = "next" /\ pc'[r] = "done"]_vars

\* C9 witness: a DELETE request is in the wrapped handler while the global
\* pool and a client's pool are full.
C9_Witness ==
    \E r \in Reqs :
        /\ method[r] = "DELETE" /\ pc[r] = "next" /\ nextCalls[r] = 1
        /\ globalSem = globalMax
        /\ \E k \in ClientKeys : InUse(k) = perIPMax

\* C10: a request for which acquire fails is answered with 429 and the
\* message "too many concurrent uploads", with no Retry-After header; the
\* wrapped handler is never invoked for it, it takes no further step
\* (neither queued nor retried), and it holds no slot after the response.
C10_RefusedAnswered429 ==
    /\ [](\A r \in Reqs :
            Refused(r)
            => /\ resp[r].code = 429
               /\ resp[r].body = "too many concurrent uploads"
               /\ "Retry-After" \notin resp[r].headers
               /\ nextCalls[r] = 0
               /\ releases[r] = 0
               /\ pc[r] = "done"
               /\ globalSem = Cardinality(GlobalHolders \ {r})
               /\ \A k \in ClientKeys :
                     InUse(k) = Cardinality(PerIPHolders(k) \ {r}))
    /\ [][\A r \in Reqs : Refused(r) => ~StepOf(r)]_vars

\* C10 witness: one request was refused on the global pool and another on
\* its client's pool.
C10_Witness ==
    \E r, q \in Reqs :
        /\ ret[r] = "false_global" /\ resp[r].code = 429
        /\ ret[q] = "false_perIP" /\ resp[q].code = 429

\* C35: once the acquire call of a request has returned, with true or
\* with false, the per-client table has an entry for the request's key.
C35_EntryAfterAcquire ==
    \A r \in Reqs : ret[r] # "none" => ip[r] \in DOMAIN perIP

\* The admitted requests in flight, all of them and those of client k.
AdmittedInFlight == {r \in Reqs : InFlight(r)}
AdmittedInFlightOf(k) == {r \in AdmittedInFlight : ip[r] = k}

\* C39: when an acquire call finds a pool full, at its global select or
\* at its per-client select, and so goes on to return false, G admitted
\* requests are in flight or P admitted requests of its client are.
C39_RefusedOnlyWhenFull ==
    [][\A r \in Reqs :
          (\/ pc[r] = "acquire" /\ ret'[r] = "false_global"
           \/ pc[r] = "acq_perIP" /\ pc'[r] = "rollback")
          => \/ Cardinality(AdmittedInFlight) >= globalMax
             \/ Cardinality(AdmittedInFlightOf(ip[r])) >= perIPMax]_allVars

\* ======================================================== direct calls
\* acquire and release as functions of the package: besides the calls that
\* Middleware makes, a caller inside the package calls l.release(k) for a
\* client k without having acquired, as a test of the package would.

CallRelease(r, k) ==
    /\ pc[r] = "idle"
    /\ \A q \in Reqs : q < r => pc[q] # "idle"
    /\ ip' = [ip EXCEPT ![r] = k]
    /\ pc' = [pc EXCEPT ![r] = "rel_ipChan"]
    /\ UNCHANGED <<limiterVars, method, ret, resp, nextCalls, exit, releases>>
    /\ UNCHANGED otherVars

CallsNext ==
    \E r \in Reqs :
        \/ \E k \in ClientKeys : MiddlewareEnter(r, "POST", k)
        \/ \E k \in ClientKeys : CallRelease(r, k)
        \/ AcquireGlobal(r)
        \/ AcquireIPChan(r)
        \/ AcquirePerIP(r)
        \/ Rollback(r)
        \/ NextEnds(r, "ok")
        \/ ReleaseIPChan(r)
        \/ ReleasePerIP(r)
        \/ ReleaseGlobal(r)

\* The request is, or was, a release call without an acquire before it.
Unpaired(r) ==
    /\ ret[r] = "none"
    /\ pc[r] \in {"rel_ipChan", "rel_perIP", "rel_global", "done"}

InRelease(r) == pc[r] \in {"rel_ipChan", "rel_perIP", "rel_global"}

\* C12: in every state, every acquire call and every release call in
\* progress has a step it can take at once, whatever the other calls do:
\* the sends of acquire and the receives of release have a default branch;
\* the one blocking receive, acquire's rollback on the global pool, finds
\* the slot that the same call put there (as long as every release is
\* paired with an acquire, as Middleware's are).  A release step never
\* raises a count and leaves an empty pool empty.
C12_NeverWaits ==
    /\ [](\A r \in Reqs :
            /\ pc[r] = "acquire" => ENABLED AcquireGlobal(r)
            /\ pc[r] = "acq_ipChan" => ENABLED AcquireIPChan(r)
            /\ pc[r] = "acq_perIP" => ENABLED AcquirePerIP(r)
            /\ pc[r] = "rel_ipChan" => ENABLED ReleaseIPChan(r)
            /\ pc[r] = "rel_perIP" => ENABLED ReleasePerIP(r)
            /\ pc[r] = "rel_global" => ENABLED ReleaseGlobal(r)
            /\ (pc[r] = "rollback" /\ \A q \in Reqs : ~Unpaired(q))
                  => globalSem > 0 /\ ENABLED Rollback(r))
    /\ [][\A r \in Reqs :
            (InRelease(r) /\ pc'[r] # pc[r]) =>
                /\ globalSem' \in {globalSem, globalSem - 1}
                /\ globalSem = 0 => globalSem' = 0
                /\ \A k \in ClientKeys :
                      /\ InUse(k)' \in {InUse(k), InUse(k) - 1}
                      /\ InUse(k) = 0 => InUse(k)' = 0]_allVars

\* A release call that was paired with no acquire has run to its end
\* while no other call was made: it found both pools empty and they are
\* empty still.
C12_Witness ==
    \E r \in Reqs :
        /\ Unpaired(r) /\ pc[r] = "done" /\ releases[r] = 1
        /\ \A q \in Reqs \ {r} : pc[q] = "idle"
        /\ globalSem = 0
        /\ \A k \in ClientKeys : InUse(k) = 0

\* ====================================================== the table lock
\* internal/ratelimit/limiter.go, ipChan statement by statement: the lock,
\* the lookup, the creation of a missing entry and the deferred unlock.
\* Channels have an identity here: the table maps a client key to the
\* channel made for it, and each call keeps the channel it was given.

\* No channel.
NoChan == 0

LockInit ==
    /\ mu = 0
    /\ chanOf = [k \in {} |-> NoChan]
    /\ chLen = [c \in {} |-> 0]
    /\ ch = [r \in Reqs |-> NoChan]
    /\ lpc = [r \in Reqs |-> "out"]

\* The request is at a call of ipChan, in acquire or in release.
AtIpChan(r) == pc[r] \in {"acq_ipChan", "rel_ipChan"}

\* Mutant: ipChan does not take the lock.
ipChanLockSkipped(r) ==
    /\ AtIpChan(r) /\ lpc[r] = "out"
    /\ lpc' = [lpc EXCEPT ![r] = "lookup"]
    /\ UNCHANGED <<mu, chanOf, chLen, ch>>
    /\ UNCHANGED <<vars, sweepVars, serverVars, toolVars>>

\* Line 58: l.mu.Lock() waits until the mutex is free.
ipChanLock(r) ==
    /\ AtIpChan(r) /\ lpc[r] = "out"
    /\ mu = 0
    /\ mu' = r
    /\ lpc' = [lpc EXCEPT ![r] = "lookup"]
    /\ UNCHANGED <<chanOf, chLen, ch>>
    /\ UNCHANGED <<vars, sweepVars, serverVars, toolVars>>

\* Line 60: ch, ok := l.perIP[ip].
ipChanLookup(r) ==
    /\ lpc[r] = "lookup"
    /\ IF ip[r] \in DOMAIN chanOf
       THEN /\ ch' = [ch EXCEPT ![r] = chanOf[ip[r]]]
            /\ lpc' = [lpc EXCEPT ![r] = "unlock"]
       ELSE /\ lpc' = [lpc EXCEPT ![r] = "make"]
            /\ UNCHANGED ch
    /\ UNCHANGED <<mu, chanOf, chLen>>
    /\ UNCHANGED <<vars, sweepVars, serverVars, toolVars>>

\* Lines 61-64: a new channel is made and stored under the key.
ipChanMake(r) ==
    /\ lpc[r] = "make"
    /\ LET c == Cardinality(DOMAIN chLen) + 1
       IN  /\ chLen' = [x \in DOMAIN chLen \cup {c} |->
                           IF x = c THEN 0 ELSE chLen[x]]
           /\ chanOf' = [k \in DOMAIN chanOf \cup {ip[r]} |->
                           IF k = ip[r] THEN c ELSE chanOf[k]]
           /\ ch' = [ch EXCEPT ![r] = c]
    /\ lpc' = [lpc EXCEPT ![r] = "unlock"]
    /\ UNCHANGED mu
    /\ UNCHANGED <<vars, sweepVars, serverVars, toolVars>>

\* Lines 59 and 65: the deferred l.mu.Unlock() runs as ipChan returns the
\* channel to its caller.
ipChanUnlock(r) ==
    /\ lpc[r] = "unlock"
    /\ mu' = 0
    /\ lpc' = [lpc EXCEPT ![r] = "out"]
    /\ pc' = [pc EXCEPT ![r] = IF pc[r] = "acq_ipChan" THEN "acq_perIP"
                                                       ELSE "rel_perIP"]
    /\ UNCHANGED <<chanOf, chLen, ch>>
    /\ UNCHANGED <<limiterVars, method, ip, ret, resp, nextCalls, exit, releases>>
    /\ UNCHANGED <<sweepVars, serverVars, toolVars>>

\* acquire lines 35-39 on the channel that ipChan returned.
acquireSend(r) ==
    /\ pc[r] = "acq_perIP"
    /\ IF chLen[ch[r]] < perIPMax
       THEN /\ chLen' = [chLen EXCEPT ![ch[r]] = @ + 1]
            /\ ret' = [ret EXCEPT ![r] = "true"]
            /\ nextCalls' = [nextCalls EXCEPT ![r] = @ + 1]
            /\ pc' = [pc EXCEPT ![r] = "next"]
       ELSE /\ pc' = [pc EXCEPT ![r] = "rollback"]
            /\ UNCHANGED <<chLen, ret, nextCalls>>
    /\ UNCHANGED <<mu, chanOf, ch, lpc>>
    /\ UNCHANGED <<limiterVars, method, ip, resp, exit, releases>>
    /\ UNCHANGED <<sweepVars, serverVars, toolVars>>

\* release lines 47-50 on the channel that ipChan returned.
releaseReceive(r) ==
    /\ pc[r] = "rel_perIP"
    /\ chLen' = [chLen EXCEPT ![ch[r]] = IF @ > 0 THEN @ - 1 ELSE @]
    /\ pc' = [pc EXCEPT ![r] = "rel_global"]
    /\ UNCHANGED <<mu, chanOf, ch, lpc>>
    /\ UNCHANGED <<limiterVars, method, ip, ret, resp, nextCalls, exit, releases>>
    /\ UNCHANGED <<sweepVars, serverVars, toolVars>>

\* Concurrent POST requests through Middleware, acquire and release.
LockNext ==
    \E r \in Reqs :
        \/ \E k \in ClientKeys : MiddlewareEnter(r, "POST", k)
        \/ AcquireGlobal(r)
        \/ ipChanLock(r)
        \/ ipChanLookup(r)
        \/ ipChanMake(r)
        \/ ipChanUnlock(r)
        \/ acquireSend(r)
        \/ Rollback(r)
        \/ NextEnds(r, "ok")
        \/ releaseReceive(r)
        \/ ReleaseGlobal(r)

\* ------------------------------------------------- claims on the lock

\* A step of request r that takes or returns a slot of a pool.
SlotStep(r) ==
    /\ pc'[r] # pc[r]
    /\ \/ globalSem' # globalSem
       \/ \E c \in DOMAIN chLen : chLen'[c] # chLen[c]

\* C36: the lock is held by a request only while the request is inside
\* ipChan, and a request inside ipChan past the Lock call holds it, so
\* that lookups and creations exclude each other; no step that takes or
\* returns a slot is taken by the holder of the lock; all calls for one
\* client key are given one and the same channel, the one in the table;
\* and an entry of the table, once made, is never replaced or removed.
C36_LockOnlyInIpChan ==
    /\ [](/\ \A r \in Reqs : mu = r <=> lpc[r] # "out"
          /\ \A r \in Reqs : lpc[r] # "out" => AtIpChan(r)
          /\ \A r, q \in Reqs :
                (ch[r] # NoChan /\ ch[q] # NoChan /\ ip[r] = ip[q])
                    => ch[r] = ch[q]
          /\ \A r \in Reqs :
                ch[r] # NoChan => ip[r] \in DOMAIN chanOf /\ chanOf[ip[r]] = ch[r])
    /\ [][/\ \A r \in Reqs : SlotStep(r) => mu # r /\ mu' = mu
          /\ \A k \in DOMAIN chanOf :
                k \in DOMAIN chanOf' /\ chanOf'[k] = chanOf[k]]_allVars

\* Two acquire calls for one client key, in progress at the same time,
\* are both back from ipChan with the same channel, which neither has
\* used yet.
C36_Witness ==
    \E r, q \in Reqs :
        /\ r # q /\ ip[r] = ip[q]
        /\ pc[r] = "acq_perIP" /\ pc[q] = "acq_perIP"
        /\ ch[r] # NoChan /\ ch[r] = ch[q]
        /\ chLen[ch[r]] = 0

\* ============================================================== routes
\* internal/server/server.go: the mux hands "/files/" to the upload engine
\* wrapped in limiter.Middleware, and "/mcp" to the MCP handler as it is.
\* internal/mcpserver/server.go: the upload_file tool writes the primary
\* object and then its ".info" object.

\* The request has acquired a slot and its wrapped handler still runs.
HoldsSlot(r) == ret[r] = "true" /\ pc[r] = "next"

Write(r, path, key) ==
    [req |-> r, path |-> path, key |-> key, held |-> HoldsSlot(r)]

ServerInit == written = {}

\* The upload engine, running as the wrapped handler of a POST or PATCH
\* under "/files/", writes the upload's ".info" object or its bytes.
TusWrite(r, key) ==
    /\ pc[r] = "next"
    /\ method[r] \in {"POST", "PATCH"}
    /\ Write(r, "/files/", key) \notin written
    /\ written' = written \cup {Write(r, "/files/", key)}
    /\ UNCHANGED <<vars, sweepVars, toolVars, lockVars>>

\* A POST to "/mcp" calling the upload_file tool with valid arguments
\* reaches handleUploadFile; no middleware stands before the handler.
ServeMcp(r) ==
    /\ pc[r] = "idle"
    /\ \A q \in Reqs : q < r => pc[q] # "idle"
    /\ method' = [method EXCEPT ![r] = "POST"]
    /\ pc' = [pc EXCEPT ![r] = "mcp_put"]
    /\ UNCHANGED <<limiterVars, ip, ret, resp, nextCalls, exit, releases>>
    /\ UNCHANGED <<sweepVars, serverVars, toolVars, lockVars>>

\* handleUploadFile lines 206-219: PutObject of the file's bytes; on an
\* error the tool returns an error result.
McpPutObject(r, ok) ==
    /\ pc[r] = "mcp_put"
    /\ IF ok
       THEN /\ written' = written \cup {Write(r, "/mcp", "")}
            /\ pc' = [pc EXCEPT ![r] = "mcp_put_info"]
       ELSE /\ pc' = [pc EXCEPT ![r] = "done"]
            /\ UNCHANGED written
    /\ UNCHANGED <<limiterVars, method, ip, ret, resp, nextCalls, exit, releases>>
    /\ UNCHANGED <<sweepVars, toolVars, lockVars>>

\* handleUploadFile lines 242-257: PutObject of the ".info" object; on an
\* error the primary object is deleted again and the tool returns an error
\* result.  The tagging and the result that follow write no object.
McpPutInfo(r, ok) ==
    /\ pc[r] = "mcp_put_info"
    /\ IF ok
       THEN written' = written \cup {Write(r, "/mcp", ".info")}
       ELSE UNCHANGED written
    /\ pc' = [pc EXCEPT ![r] = "done"]
    /\ UNCHANGED <<limiterVars, method, ip, ret, resp, nextCalls, exit, releases>>
    /\ UNCHANGED <<sweepVars, toolVars, lockVars>>

\* The requests of the upload paths: tus POST and PATCH under "/files/"
\* and upload_file calls to "/mcp"; the wrapped handler returns normally.
ServerNext ==
    \E r \in Reqs :
        \/ \E m \in {"POST", "PATCH"}, k \in ClientKeys : MiddlewareEnter(r, m, k)
        \/ AcquireGlobal(r)
        \/ AcquireIPChan(r)
        \/ AcquirePerIP(r)
        \/ Rollback(r)
        \/ \E key \in {"", ".info"} : TusWrite(r, key)
        \/ NextEnds(r, "ok")
        \/ ReleaseIPChan(r)
        \/ ReleasePerIP(r)
        \/ ReleaseGlobal(r)
        \/ ServeMcp(r)
        \/ \E ok \in BOOLEAN : McpPutObject(r, ok)
        \/ \E ok \in BOOLEAN : McpPutInfo(r, ok)

\* C11: every write of a primary object or of a ".info" object to the
\* bucket was made by a request that had acquired a slot and still held
\* it, whichever route the request came by.
C11_EveryWriteHoldsSlot == \A w \in written : w.held

\* ====================================================== expiry sweeper
\* internal/expiry/worker.go: the background goroutine that lists the
\* objects under the prefix, reads each primary object's expires-at tag
\* and deletes the expired ones page by page.  Time is counted in ticks,
\* TicksPerSecond of them to the second: time.Now() is finer than the
\* whole seconds an RFC3339 tag value can carry.

NumObjs == 2
PageSize == 2
MaxClock == 3
MaxPasses == 2
TicksPerSecond == 2
IntervalMinutes == 10

Ids == 1..NumObjs
\* Every upload id has a primary key and a ".info" key.  PartKey is the
\* upload engine's fragment of an unfinished upload, left in the bucket.
UploadKeys == Ids \X {"", ".info"}
PartKey == <<NumObjs, ".part">>
Keys == UploadKeys \cup {PartKey}

\* strings.HasSuffix(key, sfx) on a key <<id, final suffix>>.
HasSuffix(k, sfx) == k[2] = sfx

\* key + ".info" for a primary key.
InfoKey(k) == <<k[1], ".info">>

\* Position of a key in the bucket's lexicographic listing:
\* "id" < "id.info" < "id.part" < "id+1".
KeyOrder(k) ==
    3 * k[1] + (CASE k[2] = "" -> 0 [] k[2] = ".info" -> 1 [] OTHER -> 2)

NoTag == <<"none", 0>>
Absent == [exists |-> FALSE, expiresAt |-> NoTag]
Stamps == {<<"rfc3339", s>> : s \in 1..(MaxClock \div TicksPerSecond)}
Garbage == <<"text", 0>>
TagValues == {NoTag, Garbage} \cup Stamps
Obj(v) == [exists |-> TRUE, expiresAt |-> v]

\* Mutant: text that is no RFC3339 timestamp parses to the zero instant
\* without an error.
ParseLenient(v) ==
    IF v[1] = "rfc3339" THEN [err |-> FALSE, t |-> v[2] * TicksPerSecond]
                        ELSE [err |-> FALSE, t |-> 0]

\* time.Parse(time.RFC3339, v): an instant, or an error for other text.
ParseRFC3339(v) ==
    IF v[1] = "rfc3339" THEN [err |-> FALSE, t |-> v[2] * TicksPerSecond]
                        ELSE [err |-> TRUE, t |-> 0]

\* Mutant: the comparison of line 94 is dropped, every parsed deadline
\* counts as passed.
AfterAlways(u, t) == TRUE

\* u.After(t) of time.Time: strictly later.
After(u, t) == u > t

\* Mutant: an object without the tag is given a deadline long past.
findTagDefaultsToPast(o) ==
    IF o.expiresAt = NoTag THEN [ok |-> TRUE, v |-> <<"rfc3339", 0>>]
                           ELSE [ok |-> TRUE, v |-> o.expiresAt]

\* findTag(tags, "expires-at")
findTag(o) ==
    IF o.expiresAt = NoTag THEN [ok |-> FALSE, v |-> NoTag]
                           ELSE [ok |-> TRUE, v |-> o.expiresAt]

\* The first n keys of S in listing order.
RECURSIVE TakeInOrder(_, _)
TakeInOrder(S, n) ==
    IF n = 0 \/ S = {} THEN <<>>
    ELSE LET first == CHOOSE k \in S : \A j \in S : KeyOrder(k) <= KeyOrder(j)
         IN  <<first>> \o TakeInOrder(S \ {first}, n - 1)

Range(s) == {s[i] : i \in DOMAIN s}

\* The comparison of line 94 for the primary object of id in bucket st:
\* it exists and its tag parses to an instant that t is after.
ExpiredPrimary(st, id, t) ==
    LET o == st[<<id, "">>]
    IN  /\ o.exists
        /\ ~ParseRFC3339(o.expiresAt).err
        /\ t > ParseRFC3339(o.expiresAt).t

\* History kept for the claims: during a pass, whether the id's primary
\* object was expired when the pass began ("expired" or "live"), until
\* another writer touches the id ("touched"); "none" outside a pass.
NoPass == [id \in Ids |-> "none"]

\* main.go has started the worker, which has not yet reached its first
\* runOnce; the bucket holds no upload yet, only a leftover fragment.  The
\* process starts one tick before the first whole second of the model.
SweepInit ==
    /\ store = [k \in Keys |-> IF k = PartKey THEN Obj(NoTag) ELSE Absent]
    /\ clock = TicksPerSecond - 1
    /\ ctxDone = FALSE
    /\ wpc = "init"
    /\ passNow = 0
    /\ more = FALSE
    /\ cursor = 0
    /\ page = <<>>
    /\ toDelete = <<>>
    /\ log = {}
    /\ tickerPeriod = 0
    /\ tickPending = FALSE
    /\ passes = 0
    /\ ticksTaken = 0
    /\ atStart = NoPass

\* ---- the other writers of the bucket and the passage of time

\* A pass is between its entry and its return.
InPass == wpc \in {"list", "scan"}

\* History: an id written by others since the running pass began.
Touch(k) == IF InPass THEN [atStart EXCEPT ![k[1]] = "touched"] ELSE atStart

\* PutObject by an upload path, under a fresh key: a new object carries
\* no tags.
PutObject(k) ==
    /\ ~store[k].exists
    /\ store' = [store EXCEPT ![k] = Obj(NoTag)]
    /\ atStart' = Touch(k)
    /\ UNCHANGED <<clock, ctxDone, workerVars>>
    /\ UNCHANGED nonSweepVars

\* PutObjectTagging: the upload paths tag the primary object and its
\* .info object with an RFC3339 deadline; other tools may write any text.
PutObjectTagging(k, v) ==
    /\ store[k].exists
    /\ HasSuffix(k, ".info") => v \in Stamps
    /\ store[k].expiresAt # v
    /\ store' = [store EXCEPT ![k] = Obj(v)]
    /\ atStart' = Touch(k)
    /\ UNCHANGED <<clock, ctxDone, workerVars>>
    /\ UNCHANGED nonSweepVars

\* DeleteObject by the delete_file tool or the tus termination extension.
DeleteObject(k) ==
    /\ store[k].exists
    /\ store' = [store EXCEPT ![k] = Absent]
    /\ atStart' = Touch(k)
    /\ UNCHANGED <<clock, ctxDone, workerVars>>
    /\ UNCHANGED nonSweepVars

ClockTick ==
    /\ clock < MaxClock
    /\ clock' = clock + 1
    /\ UNCHANGED <<store, ctxDone, workerVars, historyVars>>
    /\ UNCHANGED nonSweepVars

\* main: cancel() after the quit signal.
Cancel ==
    /\ ~ctxDone
    /\ ctxDone' = TRUE
    /\ UNCHANGED <<store, clock, workerVars, historyVars>>
    /\ UNCHANGED nonSweepVars

\* The runtime's ticker puts a tick in ticker.C, a channel of capacity 1;
\* a tick that finds the channel full is dropped.
TickerFire ==
    /\ tickerPeriod # 0
    /\ wpc # "stopped"
    /\ ~tickPending
    /\ tickPending' = TRUE
    /\ UNCHANGED <<storeVars, wpc, passNow, more, cursor, page, toDelete,
                   log, tickerPeriod, passes, ticksTaken, historyVars>>
    /\ UNCHANGED nonSweepVars

\* ---- Worker.runOnce, one step per blob-store call

\* Entry of runOnce: now := time.Now().UTC() and a fresh paginator.
BeginPass ==
    /\ passNow' = clock
    /\ more' = TRUE
    /\ cursor' = 0
    /\ page' = <<>>
    /\ toDelete' = <<>>
    /\ log' = {}
    /\ passes' = passes + 1
    /\ atStart' = [id \in Ids |-> IF ExpiredPrimary(store, id, clock)
                                THEN "expired" ELSE "live"]
    /\ wpc' = "list"

\* runOnce returns to Start, its locals are gone: after the first pass
\* Start creates the ticker, after every pass it waits in the select.
EndPass ==
    /\ passNow' = 0
    /\ more' = FALSE
    /\ cursor' = 0
    /\ page' = <<>>
    /\ toDelete' = <<>>
    /\ log' = {}
    /\ atStart' = NoPass
    /\ tickerPeriod' = IF tickerPeriod = 0 THEN IntervalMinutes
                                           ELSE tickerPeriod
    /\ wpc' = "select"

\* Mutant: Start creates the ticker and enters its loop without the pass
\* of line 31.
StartWithoutFirstPass ==
    /\ wpc = "init"
    /\ EndPass
    /\ UNCHANGED <<storeVars, tickPending, passes, ticksTaken>>
    /\ UNCHANGED nonSweepVars

\* Worker.Start, line 31: the first pass, before the ticker exists.
StartRunOnce ==
    /\ wpc = "init"
    /\ BeginPass
    /\ UNCHANGED <<storeVars, tickerPeriod, tickPending, ticksTaken>>
    /\ UNCHANGED nonSweepVars

\* paginator.HasMorePages() is false: the pass is complete.
PassComplete ==
    /\ wpc = "list"
    /\ ~more
    /\ EndPass
    /\ UNCHANGED <<storeVars, tickPending, passes, ticksTaken>>
    /\ UNCHANGED nonSweepVars

\* Mutant: a failed listing ends the worker, not only the pass.
ListFailsStopsWorker ==
    /\ wpc = "list"
    /\ more
    /\ passNow' = 0
    /\ more' = FALSE
    /\ cursor' = 0
    /\ page' = <<>>
    /\ toDelete' = <<>>
    /\ log' = {}
    /\ atStart' = NoPass
    /\ wpc' = "stopped"
    /\ UNCHANGED <<storeVars, tickerPeriod, tickPending, passes, ticksTaken>>
    /\ UNCHANGED nonSweepVars

\* paginator.NextPage fails (always so once the context is cancelled):
\* the error is logged and runOnce returns.
ListFails ==
    /\ wpc = "list"
    /\ more
    /\ EndPass
    /\ UNCHANGED <<storeVars, tickPending, passes, ticksTaken>>
    /\ UNCHANGED nonSweepVars

\* The loop's "continue" for keys ending in ".info" or ".part".
RECURSIVE SkipSideKeys(_)
SkipSideKeys(s) ==
    IF s = <<>> THEN s
    ELSE IF HasSuffix(Head(s), ".info") \/ HasSuffix(Head(s), ".part")
    THEN SkipSideKeys(Tail(s))
    ELSE s

\* paginator.NextPage: the next PageSize keys after the last one listed.
ListPage ==
    /\ wpc = "list"
    /\ more
    /\ ~ctxDone
    /\ LET avail == {k \in Keys : store[k].exists /\ KeyOrder(k) > cursor}
           pg == TakeInOrder(avail, PageSize)
       IN  /\ page' = SkipSideKeys(pg)
           /\ cursor' = IF pg = <<>> THEN cursor ELSE KeyOrder(pg[Len(pg)])
           /\ more' = (Cardinality(avail) > PageSize)
    /\ toDelete' = <<>>
    /\ wpc' = "scan"
    /\ UNCHANGED <<storeVars, passNow, log, tickerPeriod, tickPending,
                   passes, ticksTaken, historyVars>>
    /\ UNCHANGED nonSweepVars

\* Mutant: only the primary key is marked, its ".info" key is forgotten.
MarkPrimaryOnly(key) == toDelete \o <<key>>

\* Lines 95-98: the key and its ".info" key join the page's batch.
Mark(key) == toDelete \o <<key, InfoKey(key)>>

\* Mutant: an object whose tags cannot be read is taken for expired.
ScanObjectMarksOnFailure(tagsFail) ==
    /\ wpc = "scan"
    /\ page # <<>>
    /\ LET key == Head(page)
           obj == store[key]
           tag == findTag(obj)
           parsed == ParseRFC3339(tag.v)
       IN  /\ page' = SkipSideKeys(Tail(page))
           /\ IF tagsFail \/ ctxDone \/ ~obj.exists
              THEN log' = log \cup {"get tags failed"}
                   /\ toDelete' = Mark(key)
              ELSE IF ~tag.ok
              THEN UNCHANGED <<toDelete, log>>
              ELSE IF parsed.err
              THEN log' = log \cup {"invalid expires-at tag"}
                   /\ UNCHANGED toDelete
              ELSE IF After(passNow, parsed.t)
              THEN toDelete' = Mark(key) /\ UNCHANGED log
              ELSE UNCHANGED <<toDelete, log>>
    /\ UNCHANGED <<storeVars, wpc, passNow, more, cursor, tickerPeriod,
                   tickPending, passes, ticksTaken, historyVars>>
    /\ UNCHANGED nonSweepVars

\* Mutant: every comparison reads the clock anew.
ScanObjectReadsClock(tagsFail) ==
    /\ wpc = "scan"
    /\ page # <<>>
    /\ LET key == Head(page)
           obj == store[key]
           tag == findTag(obj)
           parsed == ParseRFC3339(tag.v)
       IN  /\ page' = SkipSideKeys(Tail(page))
           /\ IF tagsFail \/ ctxDone \/ ~obj.exists
              THEN log' = log \cup {"get tags failed"}
                   /\ UNCHANGED toDelete
              ELSE IF ~tag.ok
              THEN UNCHANGED <<toDelete, log>>
              ELSE IF parsed.err
              THEN log' = log \cup {"invalid expires-at tag"}
                   /\ UNCHANGED toDelete
              ELSE IF After(clock, parsed.t)
              THEN toDelete' = Mark(key) /\ UNCHANGED log
              ELSE UNCHANGED <<toDelete, log>>
    /\ UNCHANGED <<storeVars, wpc, passNow, more, cursor, tickerPeriod,
                   tickPending, passes, ticksTaken, historyVars>>
    /\ UNCHANGED nonSweepVars

\* One iteration of the loop over page.Contents for a primary key, and
\* the skipping of the side keys that follow it; tagsFail is the outcome
\* of GetObjectTagging, which also fails for a key deleted since it was
\* listed and once the context is cancelled.
ScanObject(tagsFail) ==
    /\ wpc = "scan"
    /\ page # <<>>
    /\ LET key == Head(page)
           obj == store[key]
           tag == findTag(obj)
           parsed == ParseRFC3339(tag.v)
       IN  /\ page' = SkipSideKeys(Tail(page))
           /\ IF tagsFail \/ ctxDone \/ ~obj.exists
              THEN log' = log \cup {"get tags failed"}
                   /\ UNCHANGED toDelete
              ELSE IF ~tag.ok
              THEN UNCHANGED <<toDelete, log>>
              ELSE IF parsed.err
              THEN log' = log \cup {"invalid expires-at tag"}
                   /\ UNCHANGED toDelete
              ELSE IF After(passNow, parsed.t)
              THEN toDelete' = Mark(key) /\ UNCHANGED log
              ELSE UNCHANGED <<toDelete, log>>
    /\ UNCHANGED <<storeVars, wpc, passNow, more, cursor, tickerPeriod,
                   tickPending, passes, ticksTaken, historyVars>>
    /\ UNCHANGED nonSweepVars

\* Mutant: a failed DeleteObjects call ends the pass, as a failed listing
\* does.
DeletePageStopsOnFailure(deleteFails) ==
    /\ wpc = "scan"
    /\ page = <<>>
    /\ IF toDelete = <<>>
       THEN /\ toDelete' = <<>>
            /\ wpc' = "list"
            /\ UNCHANGED <<store, log, passNow, more, cursor, page,
                           tickerPeriod, historyVars>>
       ELSE IF deleteFails \/ ctxDone
       THEN EndPass /\ UNCHANGED store
       ELSE /\ store' = [k \in Keys |->
                            IF k \in Range(toDelete) THEN Absent ELSE store[k]]
            /\ toDelete' = <<>>
            /\ wpc' = "list"
            /\ UNCHANGED <<log, passNow, more, cursor, page,
                           tickerPeriod, historyVars>>
    /\ UNCHANGED <<clock, ctxDone, tickPending, passes, ticksTaken>>
    /\ UNCHANGED nonSweepVars

\* Mutant: the check of line 102 is dropped, DeleteObjects is called at
\* the end of every page, also with an empty batch.
DeletePageCallsAlways(deleteFails) ==
    /\ wpc = "scan"
    /\ page = <<>>
    /\ IF deleteFails \/ ctxDone
       THEN log' = log \cup {"delete objects failed"} /\ UNCHANGED store
       ELSE /\ store' = [k \in Keys |->
                            IF k \in Range(toDelete) THEN Absent ELSE store[k]]
            /\ UNCHANGED log
    /\ toDelete' = <<>>
    /\ wpc' = "list"
    /\ UNCHANGED <<clock, ctxDone, passNow, more, cursor, page, tickerPeriod,
                   tickPending, passes, ticksTaken, historyVars>>
    /\ UNCHANGED nonSweepVars

\* End of the page: nothing to delete, or one DeleteObjects call for the
\* page's batch.  A failed call is logged and leaves the bucket as it was.
DeletePage(deleteFails) ==
    /\ wpc = "scan"
    /\ page = <<>>
    /\ IF toDelete = <<>>
       THEN UNCHANGED <<store, log>>
       ELSE IF deleteFails \/ ctxDone
       THEN log' = log \cup {"delete objects failed"} /\ UNCHANGED store
       ELSE /\ store' = [k \in Keys |->
                            IF k \in Range(toDelete) THEN Absent ELSE store[k]]
            /\ UNCHANGED log
    /\ toDelete' = <<>>
    /\ wpc' = "list"
    /\ UNCHANGED <<clock, ctxDone, passNow, more, cursor, page, tickerPeriod,
                   tickPending, passes, ticksTaken, historyVars>>
    /\ UNCHANGED nonSweepVars

\* ---- Worker.Start, the select of the loop

\* case <-ctx.Done(): return (the deferred ticker.Stop() runs).
SelectDone ==
    /\ wpc = "select"
    /\ ctxDone
    /\ wpc' = "stopped"
    /\ UNCHANGED <<storeVars, passNow, more, cursor, page, toDelete, log,
                   tickerPeriod, tickPending, passes, ticksTaken, historyVars>>
    /\ UNCHANGED nonSweepVars

\* case <-ticker.C: w.runOnce(ctx).  When both cases are ready the
\* runtime picks either one.
SelectTick ==
    /\ wpc = "select"
    /\ tickPending
    /\ passes < MaxPasses
    /\ tickPending' = FALSE
    /\ ticksTaken' = ticksTaken + 1
    /\ BeginPass
    /\ UNCHANGED <<storeVars, tickerPeriod>>
    /\ UNCHANGED nonSweepVars

SweepNext ==
    \/ \E k \in UploadKeys : PutObject(k)
    \/ \E k \in UploadKeys, v \in TagValues \ {NoTag} : PutObjectTagging(k, v)
    \/ \E k \in UploadKeys : DeleteObject(k)
    \/ ClockTick
    \/ Cancel
    \/ TickerFire
    \/ StartRunOnce
    \/ PassComplete
    \/ ListFails
    \/ ListPage
    \/ \E tagsFail \in BOOLEAN : ScanObject(tagsFail)
    \/ \E deleteFails \in BOOLEAN : DeletePage(deleteFails)
    \/ SelectDone
    \/ SelectTick

\* The steps of the worker goroutine.
WorkerNext ==
    \/ StartRunOnce
    \/ PassComplete
    \/ ListFails
    \/ ListPage
    \/ \E tagsFail \in BOOLEAN : ScanObject(tagsFail)
    \/ \E deleteFails \in BOOLEAN : DeletePage(deleteFails)
    \/ SelectDone
    \/ SelectTick

\* The worker, its ticker, the clock and the cancellation, with uploads
\* that write and tag primary objects.
SweepFairNext ==
    \/ \E id \in Ids : PutObject(<<id, "">>)
    \/ \E id \in Ids, v \in Stamps : PutObjectTagging(<<id, "">>, v)
    \/ ClockTick
    \/ Cancel
    \/ TickerFire
    \/ WorkerNext

\* ------------------------------------------------ claims on the sweeper
\* Vocabulary of the claims.

Primary(id) == <<id, "">>
Info(id) == <<id, ".info">>
Exists(k) == store[k].exists

\* The calls of a pass that can fail without ending it.
CallFailures == {"get tags failed", "delete objects failed"}

\* The running pass has processed its last page and is about to return,
\* and none of its listing, tag-read or delete calls has failed.
PassDoneNoFailure == wpc = "list" /\ ~more /\ log \cap CallFailures = {}

\* C13: when a pass in which no listing, tag-read or delete call failed is
\* complete, every primary object that was expired when the pass began
\* (tag strictly before the pass's now) and that no other writer touched
\* meanwhile is gone, and so is its ".info" object.
C13_ExpiredDeleted ==
    PassDoneNoFailure =>
        \A id \in Ids :
            atStart[id] = "expired" => ~Exists(Primary(id)) /\ ~Exists(Info(id))

\* A failure-free pass is complete in which every upload was expired at
\* its start, on two different pages, and all of them are gone.
C13_Witness ==
    /\ PassDoneNoFailure
    /\ \A id \in Ids : atStart[id] = "expired"
    /\ \A k \in UploadKeys : ~Exists(k)

\* A step of the worker goroutine: each one moves its position or takes
\* keys off the page it scans (the other writers, the clock and the ticker
\* change neither).
WorkerStep == wpc' # wpc \/ page' # page

\* No other writer has touched the id since the running pass began, nor
\* does so in this step.
Untouched(id) == atStart[id] # "touched" /\ atStart'[id] # "touched"

TagOf(id) == store[Primary(id)].expiresAt
IsStamp(v) == v[1] = "rfc3339"
InstantOf(v) == v[2] * TicksPerSecond

\* The running pass has processed its last page and is about to return.
PassDone == wpc = "list" /\ ~more

\* C14: when a pass without failed calls is complete, no primary object
\* that no other writer touched remains whose deadline is at or before the
\* instant captured for the pass.
C14_AtOrBeforeDeleted ==
    PassDoneNoFailure =>
        \A id \in Ids :
            (/\ atStart[id] # "touched"
             /\ Exists(Primary(id))
             /\ IsStamp(TagOf(id)))
            => ~(InstantOf(TagOf(id)) <= passNow)

\* C15: in a pass, a primary object whose deadline is strictly after the
\* pass's now, and that no other writer touches, outlives every step, and
\* so does its ".info" object; outside a pass the worker deletes nothing.
\* So the object survives every pass that starts at or before its deadline.
C15_LiveSurvives ==
    [][/\ \A id \in Ids :
             (/\ InPass
              /\ Untouched(id)
              /\ Exists(Primary(id))
              /\ IsStamp(TagOf(id))
              /\ InstantOf(TagOf(id)) > passNow)
             => /\ store'[Primary(id)] = store[Primary(id)]
                /\ store'[Info(id)] = store[Info(id)]
       /\ (WorkerStep /\ ~InPass) => store' = store]_allVars

\* The second pass is complete; an upload whose deadline is after the
\* instants of both passes is still there with its ".info" object.
C15_Witness ==
    /\ PassDone
    /\ passes = 2
    /\ \E id \in Ids :
          /\ atStart[id] = "live"
          /\ Exists(Primary(id)) /\ Exists(Info(id))
          /\ IsStamp(TagOf(id))
          /\ InstantOf(TagOf(id)) > passNow

\* C16 as stated: no step of the worker deletes an object that carries no
\* expires-at tag, be it a primary or a side-channel object.
C16_UntaggedNeverDeleted ==
    [][\A k \in Keys :
          (/\ WorkerStep
           /\ Untouched(k[1])
           /\ Exists(k)
           /\ store[k].expiresAt = NoTag)
          => store'[k] = store[k]]_allVars

\* C16 amended: no step of the worker deletes a primary object that
\* carries no expires-at tag, nor the fragment of an unfinished upload; a
\* ".info" object goes, whatever its own tags, only in the batch that
\* deletes its expired primary object.
C16_UntaggedPrimaryKept ==
    [][/\ \A id \in Ids :
             /\ (/\ WorkerStep
                 /\ Untouched(id)
                 /\ Exists(Primary(id))
                 /\ TagOf(id) = NoTag)
                => store'[Primary(id)] = store[Primary(id)]
             /\ (/\ WorkerStep
                 /\ Untouched(id)
                 /\ Exists(Info(id))
                 /\ store'[Info(id)] # store[Info(id)])
                => /\ ExpiredPrimary(store, id, passNow)
                   /\ ~store'[Primary(id)].exists
                   /\ ~store'[Info(id)].exists
       /\ WorkerStep => store'[PartKey] = store[PartKey]]_allVars

\* A pass is complete that deleted an expired upload and left alone an
\* upload whose primary object carries no tag.
C16_Witness ==
    /\ PassDone
    /\ \E id, other \in Ids :
          /\ atStart[id] = "live"
          /\ Exists(Primary(id)) /\ TagOf(id) = NoTag
          /\ atStart[other] = "expired"
          /\ ~Exists(Primary(other)) /\ ~Exists(Info(other))

\* C17: no step of the worker deletes a primary object whose expires-at
\* tag is no RFC3339 timestamp, and the step that reads such a tag only
\* logs it: the batch is unchanged and the pass goes on with the rest of
\* the page, after which it deletes and lists as for any other page.
C17_UnparsableSkipped ==
    [][/\ \A id \in Ids :
             (/\ WorkerStep
              /\ Untouched(id)
              /\ Exists(Primary(id))
              /\ TagOf(id) = Garbage)
             => store'[Primary(id)] = store[Primary(id)]
       /\ (/\ WorkerStep
           /\ wpc = "scan" /\ page # <<>>
           /\ Exists(Head(page))
           /\ store[Head(page)].expiresAt = Garbage)
          => /\ wpc' = "scan"
             /\ toDelete' = toDelete
             /\ \E n \in 1..Len(page) : page' = SubSeq(page, n + 1, Len(page))
             /\ <<passNow, more, cursor>>' = <<passNow, more, cursor>>]_allVars

\* A pass without failed calls is complete that logged the unparsable tag
\* of the first upload, left that upload alone, and deleted the expired
\* upload of a later page.
C17_Witness ==
    /\ PassDoneNoFailure
    /\ "invalid expires-at tag" \in log
    /\ atStart[1] = "live" /\ Exists(Primary(1)) /\ TagOf(1) = Garbage
    /\ atStart[NumObjs] = "expired"
    /\ ~Exists(Primary(NumObjs)) /\ ~Exists(Info(NumObjs))

\* C18: the first pass begins before the ticker exists, so before any
\* tick; the ticker's period is the fixed interval of 10 minutes; every
\* later pass begins by taking one tick, so that the passes begun are the
\* ticks taken plus one; a pass begins only from the worker's single
\* thread of control when no pass is running; and while the context is not
\* cancelled the worker leaves its select only to begin a pass.
C18_OnePassPerTick ==
    /\ [](/\ tickerPeriod \in {0, IntervalMinutes}
          /\ tickerPeriod = 0 => ~tickPending /\ ticksTaken = 0 /\ passes <= 1
          /\ tickerPeriod # 0 => passes >= 1
          /\ wpc = "init" => passes = 0 /\ tickerPeriod = 0
          /\ wpc # "init" => passes = ticksTaken + 1)
    /\ [][/\ passes' # passes => ~InPass /\ passes' = passes + 1 /\ InPass'
          /\ ticksTaken' # ticksTaken =>
                /\ wpc = "select" /\ tickPending /\ ~tickPending'
                /\ ticksTaken' = ticksTaken + 1 /\ passes' = passes + 1
          /\ (wpc = "select" /\ wpc' # wpc /\ ~ctxDone) =>
                passes' = passes + 1]_allVars

\* The second pass runs: the first one began on start, this one on the
\* one tick taken since.
C18_Witness ==
    /\ InPass
    /\ passes = 2
    /\ ticksTaken = 1
    /\ tickerPeriod = IntervalMinutes

\* C19: once the context is cancelled, the worker waiting in its select
\* begins no further pass.
C19_NoPassAfterCancel ==
    [][(ctxDone /\ wpc = "select") => passes' = passes]_allVars

\* The step that ends the scan of a page: the DeleteObjects call of the
\* page's batch, if there is a batch.
DeleteStep == wpc = "scan" /\ page = <<>> /\ wpc' # wpc

\* C20: the batch is built from the page being scanned only (a key and
\* its ".info" key for some of the keys already taken off the page, none
\* while the next page is listed); one step deletes the whole batch or,
\* when the call fails, nothing; either way the pass goes on to list the
\* next page from where the listing stands; and a pass, whatever failed in
\* the passes before it, that completes without failed calls leaves no
\* untouched primary object behind that was expired when it began.
C20_BatchPerPage ==
    /\ [](/\ wpc # "scan" => toDelete = <<>>
          /\ Len(toDelete) + 2 * Len(page) <= 2 * PageSize
          /\ \A i \in DOMAIN toDelete :
                /\ KeyOrder(toDelete[i]) <= cursor + 1
                /\ toDelete[i] \in Ids \X {"", ".info"}
          /\ (PassDoneNoFailure /\ passes = MaxPasses) =>
                \A id \in Ids : atStart[id] = "expired" => ~Exists(Primary(id)))
    /\ [][DeleteStep =>
            /\ wpc' = "list"
            /\ <<passNow, more, cursor, passes>>' = <<passNow, more, cursor, passes>>
            /\ \/ store' = store
               \/ /\ \A k \in Range(toDelete) : ~store'[k].exists
                  /\ \A k \in Keys \ Range(toDelete) : store'[k] = store[k]
            /\ "delete objects failed" \in log' \ log => store' = store]_allVars

\* A pass is complete in which the delete call for the first page's batch
\* failed: the first upload, expired at the start, is still there, and the
\* expired upload of the later page is deleted.
C20_Witness ==
    /\ PassDone
    /\ "delete objects failed" \in log
    /\ atStart[1] = "expired" /\ Exists(Primary(1)) /\ Exists(Info(1))
    /\ atStart[NumObjs] = "expired"
    /\ ~Exists(Primary(NumObjs)) /\ ~Exists(Info(NumObjs))

\* The failure of a DeleteObjects call is in the log of the pass after the
\* step and was not before it.
DeleteFailureLogged == "delete objects failed" \in log' \ log

\* C21: the step that ends a page with an empty batch makes no delete
\* call, whatever the store would answer: the bucket is as before and no
\* failed delete is logged; and no step of a pass that began with no
\* expired primary object, none of them written by others since, changes
\* the bucket or logs a failed delete.
C21_NoCandidatesNoDelete ==
    [][/\ (DeleteStep /\ toDelete = <<>>) =>
            store' = store /\ ~DeleteFailureLogged
       /\ (WorkerStep /\ InPass /\ \A id \in Ids : atStart[id] = "live") =>
            store' = store /\ ~DeleteFailureLogged]_allVars

\* A pass is complete that began with no expired primary object and has
\* read the tag of a live one: the tagged object and its ".info" object
\* are still there, and no delete failed.
C21_Witness ==
    /\ PassDone
    /\ cursor > 0
    /\ \A id \in Ids : atStart[id] = "live"
    /\ Exists(Primary(1)) /\ IsStamp(TagOf(1)) /\ Exists(Info(1))
    /\ "delete objects failed" \notin log

\* The keys of the page that the pass would list next.
NextPageKeys ==
    Range(TakeInOrder({k \in Keys : Exists(k) /\ KeyOrder(k) > cursor}, PageSize))

\* C30: when the listing of a page fails in a pass whose tag reads and
\* deletes did not fail, only that page is skipped: when the pass returns,
\* every primary object that was expired when the pass began, not written
\* by others since, and not on the page whose listing failed, is deleted.
C30_ListFailureSkipsOnePage ==
    [][(/\ wpc = "list" /\ more /\ ~InPass'
        /\ log \cap CallFailures = {}) =>
            \A id \in Ids :
                (atStart[id] = "expired" /\ Primary(id) \notin NextPageKeys) =>
                    ~store'[Primary(id)].exists]_allVars

\* The step is the first tag read of the pass that fails.
TagReadFailureLogged == "get tags failed" \in log' \ log

\* C31: the step in which a tag read fails only logs the failure: the
\* object is not put in the batch and the bucket is unchanged, the pass
\* stays in the scan of the page with the keys that follow and with the
\* listing where it stood; and every pass begins its listing anew from
\* the first key, so that the skipped object is read again.
C31_TagReadFailureSkipsObject ==
    [][/\ TagReadFailureLogged =>
            /\ wpc = "scan" /\ wpc' = "scan"
            /\ toDelete' = toDelete
            /\ Head(page) \notin Range(toDelete')
            /\ store' = store
            /\ \E n \in 1..Len(page) : page' = SubSeq(page, n + 1, Len(page))
            /\ <<passNow, more, cursor, passes>>' = <<passNow, more, cursor, passes>>
       /\ passes' # passes =>
            /\ cursor' = 0 /\ more' /\ wpc' = "list"
            /\ log' = {} /\ toDelete' = <<>>]_allVars

\* A second pass is complete in which the tag read of the first upload
\* failed: that upload, expired when the pass began, is still there, and
\* the expired upload of the later page is deleted.
C31_Witness ==
    /\ PassDone
    /\ passes = 2
    /\ log = {"get tags failed"}
    /\ atStart[1] = "expired" /\ Exists(Primary(1)) /\ Exists(Info(1))
    /\ atStart[NumObjs] = "expired"
    /\ ~Exists(Primary(NumObjs)) /\ ~Exists(Info(NumObjs))

\* C32: a pass, whatever failed in it, ends only by returning to the
\* select of Start, where the ticker exists; the worker stops only from
\* that select and only when the context is cancelled; and so, when the
\* worker goroutine and the ticker keep running, the pass that runs
\* (failing or not) is followed by a further pass unless the context is
\* cancelled.
C32_FailedPassIsFollowed ==
    /\ [][/\ (InPass /\ ~InPass') =>
                wpc' = "select" /\ tickerPeriod' = IntervalMinutes
          /\ (wpc # "stopped" /\ wpc' = "stopped") =>
                wpc = "select" /\ ctxDone]_allVars
    /\ \A n \in 1..(MaxPasses - 1) :
          (InPass /\ passes = n) ~> (passes > n \/ ctxDone)

\* The first pass has reached its end with a failed call in its log,
\* and the context is not cancelled.
C32_Witness ==
    /\ PassDone
    /\ passes = 1
    /\ log \cap CallFailures # {}
    /\ ~ctxDone

\* The step reads the tags of the key at the head of the page.
ScanStep == wpc = "scan" /\ page # <<>> /\ page' # page

\* C33: the instant of a pass is the clock at its entry and stays the
\* same until the pass returns, however the clock moves; a scan step puts
\* a key in the batch only if that instant is after the key's deadline,
\* and, when no tag read of the pass has failed, whenever it is, so that
\* the decision depends on the deadline and the pass's instant alone; and
\* at the end of a pass without failed calls an upload that others did
\* not touch and whose deadline is not before the pass's instant is
\* there, although the clock may have passed the deadline meanwhile.
C33_OneInstantPerPass ==
    /\ [][/\ passes' # passes => passNow' = clock
          /\ (InPass /\ InPass') => passNow' = passNow
          /\ ScanStep =>
                LET tag == store[Head(page)].expiresAt
                IN  /\ toDelete' # toDelete =>
                          /\ IsStamp(tag) /\ passNow > InstantOf(tag)
                          /\ toDelete' = toDelete \o <<Head(page), InfoKey(Head(page))>>
                    /\ (/\ "get tags failed" \notin log'
                        /\ Exists(Head(page))
                        /\ IsStamp(tag) /\ passNow > InstantOf(tag))
                       => toDelete' # toDelete]_allVars
    /\ [](PassDoneNoFailure =>
            \A id \in Ids :
                /\ atStart[id] = "expired" => ~Exists(Primary(id))
                /\ (/\ atStart[id] = "live"
                    /\ Exists(Primary(id))
                    /\ IsStamp(TagOf(id)))
                   => InstantOf(TagOf(id)) >= passNow)

\* A pass without failed calls is complete; an upload whose deadline was
\* after the pass's instant is still there with its ".info" object,
\* although the clock has passed the deadline during the pass.
C33_Witness ==
    /\ PassDoneNoFailure
    /\ cursor > 0
    /\ \E id \in Ids :
          /\ atStart[id] = "live"
          /\ Exists(Primary(id)) /\ Exists(Info(id))
          /\ IsStamp(TagOf(id))
          /\ InstantOf(TagOf(id)) > passNow
          /\ clock > InstantOf(TagOf(id))

\* C34: when a pass without failed calls is complete, no ".info" object
\* that others did not touch is left whose own expires-at tag is before
\* the pass's instant and whose primary object is absent, and no primary
\* object that was expired when the pass began, with or without its
\* ".info" object.
C34_EitherObjectDiscovered ==
    PassDoneNoFailure =>
        \A id \in Ids :
            /\ atStart[id] = "expired" => ~Exists(Primary(id))
            /\ (/\ atStart[id] = "live"
                /\ ~Exists(Primary(id))
                /\ IsStamp(store[Info(id)].expiresAt)
                /\ InstantOf(store[Info(id)].expiresAt) < passNow)
               => ~Exists(Info(id))

\* ============================================== upload paths and tools
\* internal/mcpserver/server.go: the upload_file, get_file_info and
\* delete_file tools; internal/hooks/hooks.go: the hooks of the upload
\* engine under "/files/".  An upload id names the primary object, its
\* ".info" object and the handler that creates them; ids are fresh (a
\* UUID), so each is created at most once.

MaxTokLen == 3
MaxUploads == 1

\* The ids that uploads take.
UploadIds == 1..MaxUploads

\* The characters a token is made of, as byte values ("a", "b").
Bytes == {97, 98}

\* Strings of up to MaxTokLen characters; <<>> is the empty string, which
\* is also what an absent argument or an absent map key reads as.
Tokens == UNION {[1..n -> Bytes] : n \in 0..MaxTokLen}

\* The results of generateToken that the model draws: strings of one
\* fixed length, here of one character repeated.
FreshTokens == {[i \in 1..MaxTokLen |-> b] : b \in Bytes}

\* What callers supply as a token: nothing, a generated token, or the
\* first character of one.
ProbeTokens == {<<>>, <<97>>} \cup FreshTokens

\* What a client of the upload engine sends as "mgmt-token" metadata:
\* as a rule nothing, but the metadata keys are the client's to choose.
ClientTokens == {<<>>} \cup {[i \in 1..MaxTokLen |-> 97]}

\* x ^ y and x | y on bytes, bit by bit.
RECURSIVE Xor(_, _)
Xor(x, y) ==
    IF x = 0 THEN y
    ELSE IF y = 0 THEN x
    ELSE (((x % 2) + (y % 2)) % 2) + 2 * Xor(x \div 2, y \div 2)

RECURSIVE Or(_, _)
Or(x, y) ==
    IF x = 0 THEN y
    ELSE IF y = 0 THEN x
    ELSE (IF (x % 2) + (y % 2) > 0 THEN 1 ELSE 0) + 2 * Or(x \div 2, y \div 2)

\* subtle.ConstantTimeCompare's loop: v |= x[i] ^ y[i] for the first n
\* characters.
RECURSIVE OrOfXors(_, _, _)
OrOfXors(x, y, n) ==
    IF n = 0 THEN 0 ELSE Or(OrOfXors(x, y, n - 1), Xor(x[n], y[n]))

\* subtle.ConstantTimeCompare(x, y): 1 if the two have equal contents.
ConstantTimeCompare(x, y) ==
    IF Len(x) # Len(y) THEN 0
    ELSE IF OrOfXors(x, y, Len(x)) = 0 THEN 1 ELSE 0

\* Mutant: the check for empty strings is dropped.
tokenMatchesEmpty(stored, provided) ==
    ConstantTimeCompare(stored, provided) = 1

\* tokenMatches(stored, provided)
tokenMatches(stored, provided) ==
    IF stored = <<>> \/ provided = <<>> THEN FALSE
    ELSE ConstantTimeCompare(stored, provided) = 1

\* The metadata map of a ".info" object, as far as the tools read it:
\* MetaData["expires-in"] and MetaData["mgmt-token"].
NoBody == [expiresIn |-> "", token |-> <<>>]

\* What a caller is sent: a tool result (mcp.NewToolResultError or
\* toolResultJSON) or the answer of the upload engine.
Payload(isError, text, id, tok, exp, md) ==
    [isError |-> isError, text |-> text, file_id |-> id,
     management_token |-> tok, expires_at |-> exp, metadata |-> md]

ErrorResult(text) == Payload(TRUE, text, 0, <<>>, NoTag, NoBody)

\* An answer, with the tool or route that gave it, the file_id it was
\* asked about (0: the empty string) and the line of the handler that
\* returned it; for a management tool also the token that the caller
\* supplied and how the store answered the tool's calls.
Asked(op, id, provided, outcome, line, payload) ==
    [op |-> op, id |-> id, provided |-> provided, outcome |-> outcome,
     line |-> line, payload |-> payload]

Answer(op, id, line, payload) == Asked(op, id, <<>>, "ok", line, payload)

NoReply == Answer("none", 0, 0, ErrorResult(""))

\* No call of tokenMatches on its own has been made.
NoVerdict == [made |-> FALSE, stored |-> <<>>, provided |-> <<>>, ok |-> FALSE]

\* time.Hour, in ticks.
Hour == 3600 * TicksPerSecond

\* validExpiries of both packages.
validExpiries ==
    [e \in {"1h", "6h", "24h", "7d", "30d"} |->
        CASE e = "1h" -> 1 * Hour
          [] e = "6h" -> 6 * Hour
          [] e = "24h" -> 24 * Hour
          [] e = "7d" -> 7 * 24 * Hour
          [] e = "30d" -> 30 * 24 * Hour]

\* The expires-in values that callers send: none, one of the classes and
\* one that is no class.
ExpiresInInputs == {"", "1h", "2h"}

\* t.Format(time.RFC3339): whole seconds, the fraction is dropped.
FormatRFC3339(t) == <<"rfc3339", t \div TicksPerSecond>>

\* An id no handler has taken yet, and the locals of the handler that
\* creates an upload: the route it came by, its position, the TTL class,
\* what time.Now() returned, the expires-at value computed from it and the
\* generated token.
NoUpload ==
    [route |-> "none", pc |-> "none", expiresIn |-> "", now |-> 0,
     expiresAt |-> NoTag, token |-> <<>>]

ToolsInit ==
    /\ up = [id \in Ids |-> NoUpload]
    /\ infoBody = [id \in Ids |-> NoBody]
    /\ reply = NoReply
    /\ leaks = {}
    /\ verdict = NoVerdict

\* ms.objectKey(id): the key of the primary object of a file_id.
objectKey(id) == <<id, "">>

\* uuid.New(): the next id that no handler has taken.
Fresh(id) ==
    /\ up[id].pc = "none"
    /\ \A j \in Ids : j < id => up[j].pc # "none"

\* ---- the upload_file tool, one step per blob-store call

\* handleUploadFile, lines 145-199: the checks of the arguments, the
\* expires-at value and the token, before any call to the store.
UploadFileBegin(id, expiresIn, tokenOk, tok) ==
    /\ Fresh(id)
    /\ LET e == IF expiresIn = "" THEN "24h" ELSE expiresIn
       IN  IF e \notin DOMAIN validExpiries
           THEN /\ reply' = Answer("upload_file", 0, 179,
                                   ErrorResult("expires_in must be one of"))
                /\ UNCHANGED up
           ELSE IF ~tokenOk
           THEN /\ reply' = Answer("upload_file", 0, 198,
                                   ErrorResult("internal error generating management token"))
                /\ UNCHANGED up
           ELSE /\ up' = [up EXCEPT ![id] =
                            [route |-> "mcp", pc |-> "put", expiresIn |-> e,
                             now |-> clock,
                             expiresAt |-> FormatRFC3339(clock + validExpiries[e]),
                             token |-> tok]]
                /\ reply' = NoReply
    /\ UNCHANGED <<store, clock, infoBody, leaks>>
    /\ UNCHANGED <<verdict, nonToolVars>>

\* Lines 206-216: PutObject of the file's bytes.
UploadFilePutObject(id, ok) ==
    /\ up[id].route = "mcp" /\ up[id].pc = "put"
    /\ IF ok
       THEN /\ store' = [store EXCEPT ![objectKey(id)] = Obj(NoTag)]
            /\ up' = [up EXCEPT ![id].pc = "put_info"]
            /\ reply' = NoReply
       ELSE /\ up' = [up EXCEPT ![id].pc = "failed"]
            /\ reply' = Answer("upload_file", 0, 215,
                               ErrorResult("failed to upload file"))
            /\ UNCHANGED store
    /\ UNCHANGED <<clock, infoBody, leaks>>
    /\ UNCHANGED <<verdict, nonToolVars>>

\* Lines 222-249: PutObject of the ".info" object, whose metadata map
\* holds the TTL class and the token.
UploadFilePutInfo(id, ok) ==
    /\ up[id].route = "mcp" /\ up[id].pc = "put_info"
    /\ IF ok
       THEN /\ store' = [store EXCEPT ![InfoKey(objectKey(id))] = Obj(NoTag)]
            /\ infoBody' = [infoBody EXCEPT ![id] =
                              [expiresIn |-> up[id].expiresIn,
                               token |-> up[id].token]]
            /\ up' = [up EXCEPT ![id].pc = "tag"]
       ELSE /\ up' = [up EXCEPT ![id].pc = "cleanup"]
            /\ UNCHANGED <<store, infoBody>>
    /\ reply' = NoReply
    /\ UNCHANGED <<clock, leaks>>
    /\ UNCHANGED <<verdict, nonToolVars>>

\* Lines 250-255: the best-effort DeleteObject of the primary object,
\* its error ignored, and the error result.
UploadFileCleanup(id, ok) ==
    /\ up[id].route = "mcp" /\ up[id].pc = "cleanup"
    /\ store' = IF ok THEN [store EXCEPT ![objectKey(id)] = Absent] ELSE store
    /\ up' = [up EXCEPT ![id].pc = "failed"]
    /\ reply' = Answer("upload_file", 0, 255,
                       ErrorResult("failed to write upload metadata"))
    /\ UNCHANGED <<clock, infoBody, leaks>>
    /\ UNCHANGED <<verdict, nonToolVars>>

\* PutObjectTagging with the one tag expires-at = v: the call replaces the
\* object's tag set; it fails for a key that does not exist.
Tagged(st, k, v, ok) ==
    IF ok /\ st[k].exists THEN [st EXCEPT ![k] = Obj(v)] ELSE st

\* Mutant: the expires-at value is computed anew for each of the two
\* tagging calls.
UploadFileTaggingRecomputes(id, ok) ==
    /\ up[id].route = "mcp" /\ up[id].pc \in {"tag", "tag_info"}
    /\ LET v == FormatRFC3339(clock + validExpiries[up[id].expiresIn])
       IN  IF up[id].pc = "tag"
           THEN /\ store' = Tagged(store, objectKey(id), v, ok)
                /\ up' = [up EXCEPT ![id].pc = "tag_info"]
                /\ reply' = NoReply /\ UNCHANGED leaks
           ELSE /\ store' = Tagged(store, InfoKey(objectKey(id)), v, ok)
                /\ up' = [up EXCEPT ![id].pc = "done"]
                /\ reply' = Answer("upload_file", id, 284,
                                   Payload(FALSE, "uploaded", id, up[id].token,
                                           up[id].expiresAt, NoBody))
                /\ leaks' = leaks \cup {<<"upload_file", id>>}
    /\ UNCHANGED <<clock, infoBody>>
    /\ UNCHANGED <<verdict, nonToolVars>>

\* Lines 258-285: the loop over key and key + ".info", a failed call only
\* logged, and after it the result, which carries the token.
UploadFileTagging(id, ok) ==
    /\ up[id].route = "mcp" /\ up[id].pc \in {"tag", "tag_info"}
    /\ IF up[id].pc = "tag"
       THEN /\ store' = Tagged(store, objectKey(id), up[id].expiresAt, ok)
            /\ up' = [up EXCEPT ![id].pc = "tag_info"]
            /\ reply' = NoReply /\ UNCHANGED leaks
       ELSE /\ store' = Tagged(store, InfoKey(objectKey(id)), up[id].expiresAt, ok)
            /\ up' = [up EXCEPT ![id].pc = "done"]
            /\ reply' = Answer("upload_file", id, 284,
                               Payload(FALSE, "uploaded", id, up[id].token,
                                       up[id].expiresAt, NoBody))
            /\ leaks' = leaks \cup {<<"upload_file", id>>}
    /\ UNCHANGED <<clock, infoBody>>
    /\ UNCHANGED <<verdict, nonToolVars>>

\* ---- the upload engine under "/files/" and its hooks

\* Hooks.PreCreate on the creation request's expires-in metadata: the
\* answer to merge into the engine's, the metadata to store instead of
\* the client's (if changed), and the returned error, which is always nil.
PreCreate(expiry) ==
    IF expiry = ""
    THEN [status |-> 0, changed |-> TRUE, expiresIn |-> "24h", err |-> FALSE]
    ELSE IF expiry \notin DOMAIN validExpiries
    THEN [status |-> 400, changed |-> FALSE, expiresIn |-> expiry, err |-> FALSE]
    ELSE [status |-> 0, changed |-> FALSE, expiresIn |-> expiry, err |-> FALSE]

\* POST /files/: the engine calls PreUploadCreateCallback; an error
\* rejects the creation; without one the engine stores the upload's
\* ".info" object, whose metadata map is the client's Upload-Metadata
\* (any keys, mt under "mgmt-token") with the hook's changes, and answers
\* with the hook's status if it set one.
TusCreate(id, expiresIn, mt) ==
    /\ Fresh(id)
    /\ LET r == PreCreate(expiresIn)
           e == IF r.changed THEN r.expiresIn ELSE expiresIn
       IN  IF r.err
           THEN /\ reply' = Answer("POST /files/", 0, 59,
                                   ErrorResult("rejected"))
                /\ UNCHANGED <<store, infoBody, up>>
           ELSE /\ store' = [store EXCEPT ![InfoKey(objectKey(id))] = Obj(NoTag)]
                /\ infoBody' = [infoBody EXCEPT ![id] =
                                  [expiresIn |-> e, token |-> mt]]
                /\ up' = [up EXCEPT ![id] =
                            [NoUpload EXCEPT !.route = "tus", !.pc = "created",
                                             !.expiresIn = e]]
                /\ reply' = Answer("POST /files/", id,
                                   IF r.status = 0 THEN 62 ELSE 59,
                                   IF r.status = 0
                                   THEN Payload(FALSE, "created", id, <<>>,
                                                NoTag, NoBody)
                                   ELSE Payload(TRUE, "invalid expires-in", id,
                                                <<>>, NoTag, NoBody))
    /\ UNCHANGED <<clock, leaks>>
    /\ UNCHANGED <<verdict, nonToolVars>>

\* The last PATCH of an upload: the engine stores the primary object and,
\* with NotifyCompleteUploads, sends the upload to CompleteUploads, where
\* main's goroutine starts HandleComplete for it.
TusFinish(id) ==
    /\ up[id].route = "tus" /\ up[id].pc = "created"
    /\ store' = [store EXCEPT ![objectKey(id)] = Obj(NoTag)]
    /\ up' = [up EXCEPT ![id].pc = "complete"]
    /\ reply' = NoReply
    /\ UNCHANGED <<clock, infoBody, leaks>>
    /\ UNCHANGED <<verdict, nonToolVars>>

\* Hooks.HandleComplete, lines 66-93: the TTL class of the upload's
\* metadata, 24h if none; a value that is no class is logged and nothing
\* is tagged.
HandleCompleteBegin(id) ==
    /\ up[id].route = "tus" /\ up[id].pc = "complete"
    /\ LET e == IF up[id].expiresIn = "" THEN "24h" ELSE up[id].expiresIn
       IN  IF e \notin DOMAIN validExpiries
           THEN up' = [up EXCEPT ![id].pc = "done"]
           ELSE up' = [up EXCEPT ![id].pc = "tag", ![id].now = clock,
                                 ![id].expiresAt =
                                    FormatRFC3339(clock + validExpiries[e])]
    /\ reply' = NoReply
    /\ UNCHANGED <<store, clock, infoBody, leaks>>
    /\ UNCHANGED <<verdict, nonToolVars>>

\* Lines 95-104: the loop over key and key + ".info"; a failed call is
\* only logged.
HandleCompleteTagging(id, ok) ==
    /\ up[id].route = "tus" /\ up[id].pc \in {"tag", "tag_info"}
    /\ IF up[id].pc = "tag"
       THEN /\ store' = Tagged(store, objectKey(id), up[id].expiresAt, ok)
            /\ up' = [up EXCEPT ![id].pc = "tag_info"]
       ELSE /\ store' = Tagged(store, InfoKey(objectKey(id)), up[id].expiresAt, ok)
            /\ up' = [up EXCEPT ![id].pc = "done"]
    /\ reply' = NoReply
    /\ UNCHANGED <<clock, infoBody, leaks>>
    /\ UNCHANGED <<verdict, nonToolVars>>

\* GET or HEAD /files/{id}: the engine reads the upload's ".info" object
\* and answers with the upload; the answer's Upload-Metadata header
\* carries the metadata map of the ".info" object, key by key.
ServeUpload(id, getFails) ==
    /\ IF getFails \/ ~store[InfoKey(objectKey(id))].exists
       THEN /\ reply' = Answer("/files/", id, 40, ErrorResult("not found"))
            /\ UNCHANGED leaks
       ELSE /\ reply' = Answer("/files/", id, 40,
                               Payload(FALSE, "upload", id, <<>>, NoTag,
                                       infoBody[id]))
            /\ leaks' = IF infoBody[id].token # <<>>
                        THEN leaks \cup {<<"/files/", id>>} ELSE leaks
    /\ UNCHANGED <<store, clock, up, infoBody>>
    /\ UNCHANGED <<verdict, nonToolVars>>

\* ---- the management tools

\* The file_ids that callers ask about: the ids that uploads take, also
\* before they have taken them, and the empty string.
FileIds == UploadIds \cup {0}

\* How the store answers the calls of a management tool: all succeed, or
\* the one named fails (a body that cannot be read through fails the
\* decoding).
GetFileInfoOutcomes == {"ok", "get fails", "decode fails", "tags fail"}
DeleteFileOutcomes == {"ok", "get fails", "decode fails", "delete fails"}

\* Mutant: a ".info" object that cannot be fetched is reported as a file
\* that was not found.
handleGetFileInfoNotFound(id, provided, outcome) ==
    /\ LET info == InfoKey(objectKey(id))
           tag == IF outcome = "tags fail" \/ ~store[objectKey(id)].exists
                  THEN NoTag ELSE store[objectKey(id)].expiresAt
       IN  reply' =
             IF id = 0
             THEN Asked("get_file_info", id, provided, outcome, 292, ErrorResult("file_id is required"))
             ELSE IF outcome = "get fails" \/ ~store[info].exists
             THEN Asked("get_file_info", id, provided, outcome, 308, ErrorResult("file not found"))
             ELSE IF outcome = "decode fails"
             THEN Asked("get_file_info", id, provided, outcome, 314,
                         ErrorResult("invalid file_id or management_token"))
             ELSE IF ~tokenMatches(infoBody[id].token, provided)
             THEN Asked("get_file_info", id, provided, outcome, 321,
                         ErrorResult("invalid file_id or management_token"))
             ELSE Asked("get_file_info", id, provided, outcome, 350,
                         Payload(FALSE, "info", id, <<>>, tag, NoBody))
    /\ UNCHANGED <<store, clock, up, infoBody, leaks>>
    /\ UNCHANGED <<verdict, nonToolVars>>

\* handleGetFileInfo: GetObject of the ".info" object, the decoding of
\* its body, the comparison of the tokens, and for the owner the
\* GetObjectTagging of the primary object, whose failure leaves expires_at
\* empty.  The result never holds the stored token.
handleGetFileInfo(id, provided, outcome) ==
    /\ LET info == InfoKey(objectKey(id))
           tag == IF outcome = "tags fail" \/ ~store[objectKey(id)].exists
                  THEN NoTag ELSE store[objectKey(id)].expiresAt
       IN  reply' =
             IF id = 0
             THEN Asked("get_file_info", id, provided, outcome, 292, ErrorResult("file_id is required"))
             ELSE IF outcome = "get fails" \/ ~store[info].exists
             THEN Asked("get_file_info", id, provided, outcome, 308, ErrorResult("invalid file_id or management_token"))
             ELSE IF outcome = "decode fails"
             THEN Asked("get_file_info", id, provided, outcome, 314,
                         ErrorResult("invalid file_id or management_token"))
             ELSE IF ~tokenMatches(infoBody[id].token, provided)
             THEN Asked("get_file_info", id, provided, outcome, 321,
                         ErrorResult("invalid file_id or management_token"))
             ELSE Asked("get_file_info", id, provided, outcome, 350,
                         Payload(FALSE, "info", id, <<>>, tag, NoBody))
    /\ UNCHANGED <<store, clock, up, infoBody, leaks>>
    /\ UNCHANGED <<verdict, nonToolVars>>

\* Mutant: delete_file does not compare the tokens.
handleDeleteFileUnchecked(id, provided, outcome) ==
    /\ LET info == InfoKey(objectKey(id))
       IN  IF id = 0
           THEN /\ reply' = Asked("delete_file", id, provided, outcome, 358,
                                   ErrorResult("file_id is required"))
                /\ UNCHANGED <<store, infoBody>>
           ELSE IF outcome = "get fails" \/ ~store[info].exists
           THEN /\ reply' = Asked("delete_file", id, provided, outcome, 375,
                                   ErrorResult("invalid file_id or management_token"))
                /\ UNCHANGED <<store, infoBody>>
           ELSE IF outcome = "decode fails"
           THEN /\ reply' = Asked("delete_file", id, provided, outcome, 381,
                                   ErrorResult("invalid file_id or management_token"))
                /\ UNCHANGED <<store, infoBody>>
           ELSE IF outcome = "delete fails"
           THEN /\ reply' = Asked("delete_file", id, provided, outcome, 399,
                                   ErrorResult("failed to delete file"))
                /\ UNCHANGED <<store, infoBody>>
           ELSE /\ reply' = Asked("delete_file", id, provided, outcome, 402,
                                   Payload(FALSE, "deleted", id, <<>>, NoTag, NoBody))
                /\ store' = [store EXCEPT ![objectKey(id)] = Absent,
                                          ![info] = Absent]
                /\ infoBody' = [infoBody EXCEPT ![id] = NoBody]
    /\ UNCHANGED <<clock, up, leaks>>
    /\ UNCHANGED <<verdict, nonToolVars>>

\* handleDeleteFile: the same checks, then DeleteObjects of the primary
\* object and its ".info" object.
handleDeleteFile(id, provided, outcome) ==
    /\ LET info == InfoKey(objectKey(id))
       IN  IF id = 0
           THEN /\ reply' = Asked("delete_file", id, provided, outcome, 358,
                                   ErrorResult("file_id is required"))
                /\ UNCHANGED <<store, infoBody>>
           ELSE IF outcome = "get fails" \/ ~store[info].exists
           THEN /\ reply' = Asked("delete_file", id, provided, outcome, 375,
                                   ErrorResult("invalid file_id or management_token"))
                /\ UNCHANGED <<store, infoBody>>
           ELSE IF outcome = "decode fails"
           THEN /\ reply' = Asked("delete_file", id, provided, outcome, 381,
                                   ErrorResult("invalid file_id or management_token"))
                /\ UNCHANGED <<store, infoBody>>
           ELSE IF ~tokenMatches(infoBody[id].token, provided)
           THEN /\ reply' = Asked("delete_file", id, provided, outcome, 385,
                                   ErrorResult("invalid file_id or management_token"))
                /\ UNCHANGED <<store, infoBody>>
           ELSE IF outcome = "delete fails"
           THEN /\ reply' = Asked("delete_file", id, provided, outcome, 399,
                                   ErrorResult("failed to delete file"))
                /\ UNCHANGED <<store, infoBody>>
           ELSE /\ reply' = Asked("delete_file", id, provided, outcome, 402,
                                   Payload(FALSE, "deleted", id, <<>>, NoTag, NoBody))
                /\ store' = [store EXCEPT ![objectKey(id)] = Absent,
                                          ![info] = Absent]
                /\ infoBody' = [infoBody EXCEPT ![id] = NoBody]
    /\ UNCHANGED <<clock, up, leaks>>
    /\ UNCHANGED <<verdict, nonToolVars>>

\* The upload paths, the tools and the clock.
ToolsNext ==
    \/ \E id \in UploadIds, e \in ExpiresInInputs, tokenOk \in BOOLEAN, tok \in FreshTokens :
            UploadFileBegin(id, e, tokenOk, tok)
    \/ \E id \in UploadIds, ok \in BOOLEAN : UploadFilePutObject(id, ok)
    \/ \E id \in UploadIds, ok \in BOOLEAN : UploadFilePutInfo(id, ok)
    \/ \E id \in UploadIds, ok \in BOOLEAN : UploadFileCleanup(id, ok)
    \/ \E id \in UploadIds, ok \in BOOLEAN : UploadFileTagging(id, ok)
    \/ \E id \in UploadIds, e \in ExpiresInInputs, mt \in ClientTokens : TusCreate(id, e, mt)
    \/ \E id \in UploadIds : TusFinish(id)
    \/ \E id \in UploadIds : HandleCompleteBegin(id)
    \/ \E id \in UploadIds, ok \in BOOLEAN : HandleCompleteTagging(id, ok)
    \/ \E id \in UploadIds, getFails \in BOOLEAN : ServeUpload(id, getFails)
    \/ \E id \in FileIds, provided \in ProbeTokens, outcome \in GetFileInfoOutcomes :
            handleGetFileInfo(id, provided, outcome)
    \/ \E id \in FileIds, provided \in ProbeTokens, outcome \in DeleteFileOutcomes :
            handleDeleteFile(id, provided, outcome)
    \/ ClockTick

\* tokenMatches called on its own, on any two strings.
Verify(stored, provided) ==
    /\ verdict' = [made |-> TRUE, stored |-> stored, provided |-> provided,
                   ok |-> tokenMatches(stored, provided)]
    /\ UNCHANGED <<store, clock, up, infoBody, reply, leaks>>
    /\ UNCHANGED nonToolVars

VerifyNext == \E stored \in Tokens, provided \in Tokens : Verify(stored, provided)

\* ---- an upload from its creation to its sweep

MaxHours == 1

\* The TTL class of the uploads followed to their deadline.
LifeClasses == {"1h"}

\* An hour goes by.  No handler is between its reading of the clock and
\* its last call then: HandleComplete bounds its calls by a context of 30
\* seconds (hooks.go:86), upload_file by one of five minutes
\* (server.go:201).
HourPasses ==
    /\ clock < MaxHours * Hour
    /\ \A id \in Ids : up[id].pc \in {"none", "created", "done", "failed"}
    /\ clock' = clock + Hour
    /\ UNCHANGED <<store, ctxDone, workerVars, historyVars>>
    /\ UNCHANGED nonSweepVars

\* The two upload paths, the clock and the worker, which is not cancelled.
LifeNext ==
    \/ \E id \in UploadIds, e \in LifeClasses, tok \in FreshTokens :
            UploadFileBegin(id, e, TRUE, tok)
    \/ \E id \in UploadIds, ok \in BOOLEAN : UploadFilePutObject(id, ok)
    \/ \E id \in UploadIds, ok \in BOOLEAN : UploadFilePutInfo(id, ok)
    \/ \E id \in UploadIds, ok \in BOOLEAN : UploadFileCleanup(id, ok)
    \/ \E id \in UploadIds, ok \in BOOLEAN : UploadFileTagging(id, ok)
    \/ \E id \in UploadIds, e \in LifeClasses : TusCreate(id, e, <<>>)
    \/ \E id \in UploadIds : TusFinish(id)
    \/ \E id \in UploadIds : HandleCompleteBegin(id)
    \/ \E id \in UploadIds, ok \in BOOLEAN : HandleCompleteTagging(id, ok)
    \/ ClockTick
    \/ HourPasses
    \/ TickerFire
    \/ StartRunOnce
    \/ PassComplete
    \/ ListFails
    \/ ListPage
    \/ \E tagsFail \in BOOLEAN : ScanObject(tagsFail)
    \/ \E deleteFails \in BOOLEAN : DeletePage(deleteFails)
    \/ SelectTick

\* -------------------------------------- claims on the tools and uploads

\* The positions at which two strings of one length differ.
Differences(x, y) == {i \in DOMAIN x : x[i] # y[i]}

\* C23: tokenMatches(stored, supplied) is true exactly when the two are
\* non-empty and equal: it is false when either is empty (also when both
\* are), when they differ in length, and when they differ in one character.
C23_VerifyIffEqualNonEmpty ==
    verdict.made =>
        LET st == verdict.stored
            pr == verdict.provided
        IN  /\ verdict.ok <=> (st # <<>> /\ pr # <<>> /\ st = pr)
            /\ (st = <<>> \/ pr = <<>>) => ~verdict.ok
            /\ Len(st) # Len(pr) => ~verdict.ok
            /\ (Len(st) = Len(pr) /\ Cardinality(Differences(st, pr)) = 1) =>
                    ~verdict.ok

\* Two strings of full length that differ in their last character only
\* were compared and found different.
C23_Witness ==
    /\ verdict.made /\ ~verdict.ok
    /\ Len(verdict.stored) = MaxTokLen /\ Len(verdict.provided) = MaxTokLen
    /\ Differences(verdict.stored, verdict.provided) = {MaxTokLen}

\* The one answer of the management tools to a caller who is not shown
\* to own the file.
InvalidPayload == ErrorResult("invalid file_id or management_token")

\* The step is a call of get_file_info or delete_file with a file_id that
\* is not empty, and reply' is its answer.
ManagementCall ==
    /\ reply'.op \in {"get_file_info", "delete_file"}
    /\ reply'.id # 0
    /\ clock' = clock

\* C24: get_file_info and delete_file, called with a file_id that is not
\* empty, give one and the same error payload when the ".info" object
\* does not exist, when it cannot be read or decoded, when it holds no
\* token, when no token is supplied and when the supplied token differs
\* from the stored one; the payload does not name the file.
C24_SameErrorPayload ==
    [][ManagementCall =>
        LET id == reply'.id
            stored == infoBody[id].token
        IN  (\/ ~store[InfoKey(objectKey(id))].exists
             \/ reply'.outcome \in {"get fails", "decode fails"}
             \/ stored = <<>>
             \/ reply'.provided = <<>>
             \/ reply'.provided # stored) =>
                reply'.payload = InvalidPayload]_allVars

\* get_file_info was asked about an upload that exists, with a token of
\* the right length that is not the stored one, and gave the error
\* payload.
C24_Witness ==
    /\ reply.op = "get_file_info" /\ reply.id = 1 /\ reply.outcome = "ok"
    /\ store[InfoKey(objectKey(1))].exists
    /\ infoBody[1].token # <<>>
    /\ Len(reply.provided) = Len(infoBody[1].token)
    /\ reply.provided # infoBody[1].token
    /\ reply.payload = InvalidPayload

\* C25: the token of an object created by upload_file is carried by one
\* answer only, the result of that upload_file call; no answer of
\* get_file_info or of the upload-serving path under "/files/" carries it.
C25_TokenRevealedOnce ==
    /\ \A l \in leaks : up[l[2]].route = "mcp" => l[1] = "upload_file"
    /\ (reply.op \in {"get_file_info", "/files/"} /\ reply.id # 0
        /\ up[reply.id].route = "mcp") =>
            /\ reply.payload.management_token = <<>>
            /\ reply.payload.metadata.token = <<>>

\* The ".info" object of the id exists.
UploadExists(id) == store[InfoKey(objectKey(id))].exists

\* C26: in every state, every upload whose ".info" object exists has a
\* token that is not empty in the metadata map of that object; the token
\* is there from the write that creates the object and is the same for as
\* long as the object exists.
C26_TokenFromCreation ==
    /\ [](\A id \in Ids : UploadExists(id) => infoBody[id].token # <<>>)
    /\ [][\A id \in Ids :
            (UploadExists(id) /\ UploadExists(id)') =>
                infoBody'[id].token = infoBody[id].token]_allVars

\* C27: a creation with a TTL class outside the accepted ones is answered
\* with an error and writes nothing to the bucket, on both paths, so that
\* no upload with such a TTL class in its metadata ever exists.
C27_InvalidClassCreatesNothing ==
    /\ [](\A id \in Ids :
            UploadExists(id) => infoBody[id].expiresIn \in DOMAIN validExpiries)
    /\ [][(/\ reply'.op \in {"upload_file", "POST /files/"}
           /\ reply'.line \in {179, 59}
           /\ clock' = clock) =>
                reply'.payload.isError /\ store' = store]_allVars

\* The expires-at tags of the two objects of an upload.
PrimaryTag(id) == store[objectKey(id)].expiresAt
InfoTag(id) == store[InfoKey(objectKey(id))].expiresAt

\* Both objects of the upload exist and carry an expires-at tag.
TaggedBoth(id) ==
    /\ store[objectKey(id)].exists /\ PrimaryTag(id) # NoTag
    /\ UploadExists(id) /\ InfoTag(id) # NoTag

\* The step is a tagging call of the upload's handler that sets the tag
\* of key k.
TaggingSets(id, k) ==
    /\ up[id].pc \in {"tag", "tag_info"}
    /\ up'[id].pc # up[id].pc
    /\ store'[k] # store[k]

\* C28 as stated: when the handler of an upload with TTL class d is done
\* and both tagging calls succeeded, the primary object and the ".info"
\* object carry the same expires-at value, for upload_file the ".info"
\* object holds the generated token, and the value that a tagging call
\* sets is the instant of that call plus d, in RFC3339.
C28_TagIsTaggingInstantPlusTTL ==
    /\ [](\A id \in UploadIds :
            (up[id].pc = "done" /\ TaggedBoth(id)) =>
                /\ PrimaryTag(id) = InfoTag(id)
                /\ up[id].route = "mcp" =>
                      infoBody[id].token = up[id].token /\ up[id].token # <<>>)
    /\ [][\A id \in UploadIds : \A k \in {objectKey(id), InfoKey(objectKey(id))} :
            TaggingSets(id, k) =>
                store'[k].expiresAt =
                    FormatRFC3339(clock + validExpiries[up[id].expiresIn])]_allVars

\* C28 as amended: the value is the instant at which the handler read
\* the clock, which is not after the tagging calls, plus d, in whole
\* seconds; both objects carry that one value, and for upload_file the
\* ".info" object holds the generated token.
C28_TagIsHandlerInstantPlusTTL ==
    /\ [](\A id \in UploadIds :
            (up[id].pc = "done" /\ TaggedBoth(id)) =>
                /\ PrimaryTag(id) = InfoTag(id)
                /\ PrimaryTag(id) =
                      FormatRFC3339(up[id].now + validExpiries[up[id].expiresIn])
                /\ up[id].now <= clock
                /\ up[id].route = "mcp" =>
                      infoBody[id].token = up[id].token /\ up[id].token # <<>>)
    /\ [][\A id \in UploadIds : \A k \in {objectKey(id), InfoKey(objectKey(id))} :
            TaggingSets(id, k) =>
                /\ store'[k].expiresAt =
                      FormatRFC3339(up[id].now + validExpiries[up[id].expiresIn])
                /\ ParseRFC3339(store'[k].expiresAt).t <=
                      clock + validExpiries[up[id].expiresIn]]_allVars

\* An upload_file call is done, both objects are tagged, and the clock
\* has reached the next second since the handler read it.
C28_Witness ==
    /\ up[1].route = "mcp" /\ up[1].pc = "done" /\ TaggedBoth(1)
    /\ PrimaryTag(1) = InfoTag(1)
    /\ PrimaryTag(1) # FormatRFC3339(clock + validExpiries[up[1].expiresIn])
    /\ infoBody[1].token = up[1].token

\* The step is a call of delete_file, and reply' is its answer.
DeleteCall == reply'.op = "delete_file" /\ clock' = clock

\* The last answer tells that delete_file has deleted the file id.
Deleted(id) ==
    reply.op = "delete_file" /\ reply.id = id /\ ~reply.payload.isError

\* C37: a delete_file call that supplies no token or another token than
\* the stored one, or names no file or a file whose ".info" object does
\* not exist, changes nothing in the bucket, and so does every call that
\* answers with an error; a call that answers "deleted" had the stored
\* token, and leaves the primary object and the ".info" object of its
\* file id absent and every other object as it was; from then on the
\* ".info" object stays absent, and get_file_info and delete_file for a
\* file id without ".info" object answer with the uniform error and
\* change nothing.
C37_DeleteFrame ==
    /\ [][/\ DeleteCall =>
               LET id == reply'.id
                   info == InfoKey(objectKey(id))
               IN  /\ (\/ id = 0
                       \/ ~store[info].exists
                       \/ reply'.provided = <<>>
                       \/ reply'.provided # infoBody[id].token)
                      => reply'.payload.isError
                   /\ reply'.payload.isError => store' = store
                   /\ ~reply'.payload.isError =>
                         /\ ~store'[objectKey(id)].exists
                         /\ ~store'[info].exists
                         /\ \A k \in Keys \ {objectKey(id), info} :
                               store'[k] = store[k]
          /\ (ManagementCall /\ ~store[InfoKey(objectKey(reply'.id))].exists) =>
                reply'.payload = InvalidPayload /\ store' = store]_allVars
    /\ \A id \in UploadIds :
          [](Deleted(id) => [](~store[InfoKey(objectKey(id))].exists))

\* A finished upload_file upload was deleted, and a call with the
\* upload's token has since been answered with the uniform error.
C37_Witness ==
    /\ up[1].route = "mcp" /\ up[1].pc = "done"
    /\ ~store[objectKey(1)].exists /\ ~store[InfoKey(objectKey(1))].exists
    /\ reply.op \in {"get_file_info", "delete_file"}
    /\ reply.id = 1
    /\ reply.provided = up[1].token
    /\ reply.outcome = "ok"
    /\ reply.payload = InvalidPayload

\* C38: the error result of upload_file carries no token and no file id,
\* and once an upload_file call has failed, the primary object of its
\* upload is not in the bucket.
C38_FailedUploadLeavesNoOrphan ==
    /\ (reply.op = "upload_file" /\ reply.payload.isError) =>
          reply.payload.management_token = <<>> /\ reply.id = 0
    /\ \A id \in UploadIds :
          (up[id].route = "mcp" /\ up[id].pc = "failed") =>
              ~store[objectKey(id)].exists

\* The deadline of an upload whose handler computed one.
HasDeadline(id) == up[id].expiresAt # NoTag
Deadline(id) == ParseRFC3339(up[id].expiresAt).t

\* C22: when a pass in which no listing, tag-read or delete call failed is
\* complete, and the pass began after the deadline of an upload (tus or
\* upload_file) whose handler had returned, the upload's primary object
\* and its ".info" object are gone.
C22_PurgedAfterDeadline ==
    PassDoneNoFailure =>
        \A id \in UploadIds :
            (/\ up[id].pc = "done"
             /\ HasDeadline(id)
             /\ Deadline(id) < passNow)
            => ~Exists(Primary(id)) /\ ~Exists(Info(id))

\* C40: once upload_file has returned its result with expires_at = T,
\* the primary object of the upload, as long as it is in the bucket,
\* carries the tag expires-at = T, and it is no longer in the bucket when
\* a pass without failed calls that began after T is complete.
C40_ReportedDeadlineIsTagged ==
    \A id \in UploadIds :
        (up[id].route = "mcp" /\ up[id].pc = "done") =>
            /\ Exists(Primary(id)) => PrimaryTag(id) = up[id].expiresAt
            /\ (PassDoneNoFailure /\ Deadline(id) < passNow) =>
                  ~Exists(Primary(id))

\* ====================================================== specifications
\* Each specification runs one component and holds the others still.

\* The admission controller under concurrent requests.
LimiterInit == Init /\ SweepInit /\ ServerInit /\ ToolsInit /\ LockInit
Spec == LimiterInit /\ [][Next]_allVars

\* The expiry sweeper, the other writers of the bucket and the clock.
SweeperInit ==
    /\ Init /\ globalMax = MaxGlobal /\ perIPMax = MaxPerIP
    /\ SweepInit
    /\ ServerInit
    /\ ToolsInit
    /\ LockInit
SpecSweep == SweeperInit /\ [][SweepNext]_allVars

\* acquire and release called directly, paired or not.
CallsInit == LimiterInit
SpecCalls == CallsInit /\ [][CallsNext]_allVars

\* The server's routes: requests under "/files/" and to "/mcp".
ServerRunInit == LimiterInit /\ globalMax = MaxGlobal /\ perIPMax = 1
SpecServer == ServerRunInit /\ [][ServerNext]_allVars

\* The upload paths and the MCP tools on an empty bucket.
ToolsRunInit == SweeperInit
SpecTools == ToolsRunInit /\ [][ToolsNext]_allVars

\* tokenMatches on every pair of strings.
VerifyInit == SweeperInit
SpecVerify == VerifyInit /\ [][VerifyNext]_allVars

\* An upload from its creation to the sweep after its deadline.
LifeInit == SweeperInit
SpecLife == LifeInit /\ [][LifeNext]_allVars

\* The sweeper when its goroutine is scheduled and its ticker fires.
SweeperFairInit == SweeperInit
SpecSweepFair ==
    /\ SweeperFairInit
    /\ [][SweepFairNext]_allVars
    /\ WF_allVars(WorkerNext)
    /\ WF_allVars(TickerFire)

\* Concurrent requests with ipChan followed statement by statement.
LockRunInit == LimiterInit
SpecLock == LockRunInit /\ [][LockNext]_allVars

====
